---- MODULE Spec2Model ----
(***************************************************************************)
(* Model of the Sonic Shuffle music engine (src/js/SonicShuffle.js and the *)
(* SonicUtils helpers it uses).                                            *)
(*                                                                         *)
(* Part 1: the fade controller of a SonicShuffle: fade(), cancelFade(),    *)
(*         isFading(), volume(), mute(), unmute() and the setInterval      *)
(*         stepper that drives a ramp.                                     *)
(* Part 2: the section automaton: play(), next(), moveToSucessorState(),   *)
(*         cycleExists(), isLastSection(), pause(), stop().                *)
(*                                                                         *)
(* Gains are fixed-point numbers: the integer g stands for g / GainOne.    *)
(* Time is counted in stepper periods; a running stepper keeps the time    *)
(* elapsed since its `start` timestamp.                                    *)
(***************************************************************************)
EXTENDS Integers, Sequences, FiniteSets, TLC

\* ------------------------------------------------------------------ bounds
\* the integer that stands for gain 1.0
GainOne == 4
\* longest fade duration, in stepper periods
MaxMsec == 2
\* highest fade priority a caller uses
MaxPriority == 1
\* number of fade futures that can be unsettled or remembered at a time
MaxFades == 3

\* ------------------------------------------------------- program constants
\* `undefined` for an optional numeric argument or an absent field
Undefined == -1
\* _fading.promise when _fading is {}
NoPromise == 0
\* denominator of the fractions a normalizer returns here
NormDen == 2
\* denominator of the easing table
EaseDen == 100
\* number of points at which the easing curve is tabulated
EaseSteps == 4

\* fade() calls a caller makes in the re-entrant scenario
MaxCalls == 3

VARIABLES
    gain,       \* this.gain
    muted,      \* this.muted
    fading,     \* this._fading: {priority, promise}
    promise,    \* state of the Deferred held by each slot
    stepper,    \* whether the setInterval timer of each slot is running
    ramp,       \* the closure of each running stepper
    lastCall,   \* the last operation and its result
    calls       \* fade() calls made so far in the re-entrant scenario

\* most sections a shuffle has, over all its section sets
MaxTracks == 3

\* most Howls that sound at once: the current section and those ringing out
MaxSounding == 2

\* most entries of a row of a grid handed to cycleExists
MaxRowLen == 2

\* most rows of a grid handed to cycleExists
MaxRows == 3

\* most sections of a shuffle whose Howls fade on their own
MaxOwned == 2

\* longest section, in the units of args.finale
MaxDuration == 3

\* largest args.finale
MaxFinale == 2

\* `null` for this.section_set and this.section
Null == -2
\* this.section_set while the intro plays
IntroSet == -1

VARIABLES
    config,          \* the constructor's args: sizes of the section sets,
                     \* end, end_stop, overlaps, intro
    state,           \* this.state
    section_set,     \* this.section_set
    section,         \* this.section
    section_states,  \* this.section_states, the visitation grid
    sounding,        \* the tracks whose Howl is playing
    pausedTracks,    \* the tracks whose Howl is paused
    armed,           \* the tracks whose overlap timer is pending
    endH,            \* the 'end' handler of each track: the section set it froze
    ovH,             \* the tracks that have an 'overlap' handler
    picks,           \* the (set, section) pairs picked since the grid was reset
    visitgraph,      \* the argument of a call of cycleExists
    cycle,           \* what that call gave: "true", "false" or "throws"
    howls,           \* the Howl of each owned track: its volume, and whether
                     \* a fade of its own is in flight
    finale           \* the 'finale' timer of each Howl, the Howls that have a
                     \* 'finale' handler, and the Howls whose timer is running

\* Music.play calls that start a transition
MaxPlays == 2

\* setTimeout callbacks of Music.mute that can be pending at a time
MaxTimers == 1

\* Music.mute, Music.unmute, Music.pause and Music.volume calls of a run
MaxOps == 1

VARIABLES
    nowplaying,        \* _nowplaying.piece (and with it _nowplaying.audio)
    mvolume,           \* _volume
    mstate,            \* _state
    mmute,             \* _mute
    library,           \* _library: each piece, a thunk until it is loaded
    stopping_promise,  \* _stopping_promise: the future of the last transition
    futures,           \* the future each transition returned
    joins,             \* the $.when(...) Music.stop() returned to each
    timers,            \* pending setTimeout callbacks of Music.mute
    ops,               \* Music.mute, unmute, pause and volume calls so far
    mlast              \* the last operation of the session and its result,
                       \* and the piece of the last Music.play call

\* most handlers an action has
MaxHandlers == 2

\* longest weight vector handed to biased_random_index
MaxVec == 3

\* largest weight of a vector
MaxWeight == 2

\* the values Math.random() takes
RandSteps == 4

VARIABLES
    bus,   \* this.callbacks, the calls each function got in the last
           \* trigger, and the subscriptions the caller made
    draw   \* a call of biased_random_index: its argument, the values of
           \* Math.random() and its result

utilVars == <<bus, draw>>

sessionVars == <<nowplaying, mvolume, mstate, mmute, library, stopping_promise,
                 futures, joins, timers, ops, mlast>>

fadeVars == <<gain, muted, fading, promise, stepper, ramp, lastCall, calls>>
shuffleVars == <<config, state, section_set, section, section_states, sounding,
                 pausedTracks, armed, endH, ovH, picks, finale>>
gridVars == <<visitgraph, cycle>>
vars == <<gain, muted, fading, promise, stepper, ramp, lastCall, calls,
          config, state, section_set, section, section_states, sounding,
          pausedTracks, armed, endH, ovH, picks, visitgraph, cycle, howls,
          nowplaying, mvolume, mstate, mmute, library, stopping_promise,
          futures, joins, timers, ops, mlast, bus, draw, finale>>

Slots == 1..MaxFades
Priorities == 0..MaxPriority
\* an immediate fade and a ramp
Durations == {0, MaxMsec}
\* targets a caller asks for: silence, half and an out-of-range one
ToValues == {0, GainOne \div 2, GainOne + 1}
\* `from` left out, or a fade in from silence
FromValues == {Undefined, 0}
\* numerators of the values normalizer() returns: 1/2 and 1
NormValues == {1, NormDen}

Min(a, b) == IF a < b THEN a ELSE b
Max(a, b) == IF a > b THEN a ELSE b

\* SonicUtils.clamp
clamp(value, lo, hi) == Max(Min(value, hi), lo)

\* SonicUtils.nvl
nvl(val, ifnull) == IF val # Undefined THEN val ELSE ifnull

\* x * n / d rounded to the nearest integer (the fixed-point product)
MulDiv(x, n, d) == (2 * x * n + d) \div (2 * d)

\* 1 - cos(pi t / 2) at t = 0, 1/4, 1/2, 3/4, in hundredths
EaseTable == <<0, 8, 29, 62>>

\* the default easing function, for t = elapsed / msec < 1
easing(elapsed, msec) ==
    clamp(EaseTable[((EaseSteps * elapsed) \div msec) + 1], 0, EaseDen)

\* `_fading = {}`
NoFading == [priority |-> Undefined, promise |-> NoPromise]

NoRamp == [from |-> 0, to |-> 0, msec |-> 0, norm |-> NormDen,
           elapsed |-> 0, onFail |-> FALSE, cb |-> "none", grp |-> 0]

\* the fade a caller's rejection callback starts
ChainRequest == [from |-> GainOne, to |-> 0, msec |-> MaxMsec,
                 priority |-> 0, norm |-> NormDen, onFail |-> FALSE,
                 cb |-> "none", grp |-> 0]

\* what the last operation was and what it returned or settled
NoCall == [op |-> "none", ret |-> "none", slot |-> NoPromise]

\* the fade state of one entity, threaded through a handler; a future that
\* settled during an earlier operation is forgotten
CurState == [gain |-> gain, muted |-> muted, fading |-> fading,
             promise |-> [i \in Slots |->
                            IF promise[i] = "pending" THEN "pending" ELSE "free"],
             stepper |-> stepper, ramp |-> ramp, howls |-> howls,
             events |-> <<>>,
             ret |-> "none", slot |-> NoPromise, seen |-> Undefined,
             held |-> {i \in Slots : promise[i] = "pending"},
             overflow |-> FALSE,
             pstate |-> state, isnow |-> FALSE, gmute |-> FALSE]

\* `priority || 0`
OrZero(p) == IF p = Undefined THEN 0 ELSE p

\* SonicShuffle.prototype.mute: section.mute() on every owned Howl, then
\* trigger('mute', true)
muteSt(st) ==
    [st EXCEPT !.muted = TRUE,
               !.howls = [t \in DOMAIN @ |-> [@[t] EXCEPT !.muted = TRUE]],
               !.events = Append(@, "mute")]

\* mutant: the loop of volume() writes every section
propagate_all(hs, vol) == [t \in DOMAIN hs |-> [hs[t] EXCEPT !.gain = vol]]

\* the forEachSection loop of volume(): section.volume(vol) unless
\* section.isFading()
propagate(hs, vol) ==
    [t \in DOMAIN hs |->
        IF hs[t].fading THEN hs[t] ELSE [hs[t] EXCEPT !.gain = vol]]

\* SonicShuffle.prototype.volume(vol), the setter
volumeSt(st, vol) ==
    LET s1 == [st EXCEPT !.gain = clamp(vol, 0, GainOne),
                         !.events = Append(@, "volume")]
    IN IF s1.muted THEN muteSt(s1)
       ELSE [s1 EXCEPT !.howls = propagate(@, s1.gain)]

\* SonicShuffle.prototype.unmute
unmuteSt(st) ==
    LET s1 == [st EXCEPT !.muted = FALSE,
                         !.howls = [t \in DOMAIN @ |->
                                       [@[t] EXCEPT !.muted = FALSE]]]
        s2 == volumeSt(s1, s1.gain)
    IN [s2 EXCEPT !.events = Append(@, "mute")]

\* mutevol inside fade()
mutevol(st, v) == IF st.muted THEN 0 ELSE v

\* mutant: the fast path needs both conditions
FastPath_and(st, to, msec) == to = st.gain /\ msec = 0

\* the fast-path test of fade()
FastPath(st, to, msec) == to = st.gain \/ msec = 0

\* mutant: the comparison is reversed
Blocked_reversed(st, priority) ==
    st.fading.promise # NoPromise /\ priority > st.fading.priority

\* mutant: an equal priority is turned away too
Blocked_equal(st, priority) ==
    st.fading.promise # NoPromise /\ priority <= st.fading.priority

\* the priority test of fade()
Blocked(st, priority) ==
    st.fading.promise # NoPromise /\ priority < st.fading.priority

\* mutant: only a strictly lower priority can be cancelled
Cancellable_strict(st, priority) ==
    st.fading.promise # NoPromise /\ st.fading.priority < priority

\* the priority test of cancelFade()
Cancellable(st, priority) ==
    st.fading.promise # NoPromise /\ st.fading.priority <= priority

\* a slot for a new future: its last future is settled, its stepper is
\* cleared, and it held no unsettled future when the handler began
FreeSlots(st) == {i \in Slots \ st.held :
                    st.promise[i] # "pending" /\ ~st.stepper[i]}

\* the value a stepper tick computes before mutevol
RampValue(r) ==
    LET eased == r.from + ((2 * (r.to - r.from) * easing(r.elapsed, r.msec)
                            + EaseDen) \div (2 * EaseDen))
    IN MulDiv(eased, r.norm, NormDen)

\* the callback Music.js chains with .always() on the future of a fade it
\* starts: music.stop() in Music.stop, track.stop() unless the track is
\* now playing in Music.stopNonPlayingTracks, music.pause() in Music.pause,
\* track.mute() if _mute in Music.mute.  Of the track it changes this.state
\* (stop(), pause()) or this.muted (mute()).
alwaysSt(st, cb) ==
    CASE cb = "stop" -> [st EXCEPT !.pstate = "stopped"]
      [] cb = "stopOther" ->
           IF st.isnow THEN st ELSE [st EXCEPT !.pstate = "stopped"]
      [] cb = "pause" ->
           IF st.pstate = "playing" THEN [st EXCEPT !.pstate = "paused"]
           ELSE st
      [] cb = "mute" -> IF st.gmute THEN muteSt(st) ELSE st
      [] OTHER -> st

\* mutant: the timer is left running
ClearStepper_leak(st, id) == st

\* the .always() that fade() chains on the future it returns
ClearStepper(st, id) ==
    [st EXCEPT !.stepper[id] = FALSE, !.ramp[id] = NoRamp]

\* mutant: the caller's callback runs before the target is written
ResolveSt_late(st, id) ==
    IF st.promise[id] # "pending" THEN st
    ELSE LET r  == st.ramp[id]
             s1 == [st EXCEPT !.promise[id] = "resolved", !.seen = st.gain]
             s2 == volumeSt(s1, mutevol(s1, MulDiv(r.to, r.norm, NormDen)))
             s3 == [s2 EXCEPT !.fading = NoFading]
             s4 == [s3 EXCEPT !.stepper[id] = FALSE, !.ramp[id] = NoRamp]
         IN [s4 EXCEPT !.ret = "resolved", !.slot = id]

\* mutant: the .always callback leaves _fading as it is
ResolveSt_retain(st, id) ==
    IF st.promise[id] # "pending" THEN st
    ELSE LET r  == st.ramp[id]
             s1 == [st EXCEPT !.promise[id] = "resolved"]
             s2 == volumeSt(s1, mutevol(s1, MulDiv(r.to, r.norm, NormDen)))
             s4 == alwaysSt(ClearStepper(s2, id), r.cb)
         IN [s4 EXCEPT !.seen = s4.gain, !.ret = "resolved", !.slot = id]

\* promise.resolve(): the .done and .always callbacks registered by fade(),
\* then the caller's completion callback, which reads the gain
ResolveSt(st, id) ==
    IF st.promise[id] # "pending" THEN st
    ELSE LET r  == st.ramp[id]
             s1 == [st EXCEPT !.promise[id] = "resolved"]
             s2 == volumeSt(s1, mutevol(s1, MulDiv(r.to, r.norm, NormDen)))
             s3 == [s2 EXCEPT !.fading = NoFading]
             s4 == alwaysSt(ClearStepper(s3, id), r.cb)
         IN [s4 EXCEPT !.seen = s4.gain, !.ret = "resolved", !.slot = id]

\* `var x = v`: v is computed once and what follows sees its value
Bind(v, Rest(_)) == CHOOSE r \in {Rest(x) : x \in {v}} : TRUE

RECURSIVE fadeSt(_, _)
RECURSIVE RejectSt(_, _)

\* promise.reject(): the .always callbacks registered by fade(), then the
\* caller's rejection callback, which may call fade() again
RejectSt(st, id) ==
    IF st.promise[id] # "pending" THEN st
    ELSE LET r  == st.ramp[id]
             s1 == [st EXCEPT !.promise[id] = "rejected"]
             s2 == [s1 EXCEPT !.fading = NoFading]
             s3 == alwaysSt(ClearStepper(s2, id), r.cb)
         IN IF r.onFail
              THEN [fadeSt(s3, ChainRequest) EXCEPT !.ret = s3.ret,
                                                    !.slot = s3.slot,
                                                    !.seen = s3.seen]
              ELSE s3

\* SonicShuffle.prototype.fade
\* mutant: fade() goes on with whatever it was given
missing_never(args) == FALSE

\* SonicUtils.assertDefined throws for args.to or for args.msec
missing(args) == args.to = Undefined \/ args.msec = Undefined

fadeSt(st, args) ==
    IF missing(args) THEN [st EXCEPT !.ret = "throws"] ELSE
    LET from == nvl(args.from, st.gain)
        priority == OrZero(args.priority)
    IN IF st.fading.promise # NoPromise /\ Blocked(st, priority)
         THEN [alwaysSt(st, args.cb) EXCEPT !.ret = "rejected"]
         ELSE
           LET s1 == IF st.fading.promise # NoPromise
                       THEN RejectSt(st, st.fading.promise)
                       ELSE st
               s2 == [s1 EXCEPT !.fading.priority = priority]
           IN IF FastPath(s2, args.to, args.msec)
                THEN LET s3 == volumeSt(s2,
                                 mutevol(s2, MulDiv(args.to, args.norm, NormDen)))
                         s4 == volumeSt(s3,
                                 mutevol(s3, MulDiv(args.to, args.norm, NormDen)))
                         s5 == alwaysSt([s4 EXCEPT !.fading = NoFading],
                                        args.cb)
                     IN [s5 EXCEPT !.ret = "resolved", !.seen = s5.gain]
                ELSE LET s3 == volumeSt(s2, MulDiv(from, args.norm, NormDen))
                     IN IF FreeSlots(s3) = {}
                          THEN [s3 EXCEPT !.overflow = TRUE]
                          ELSE LET id == CHOOSE i \in FreeSlots(s3) :
                                            \A j \in FreeSlots(s3) : i <= j
                               IN [s3 EXCEPT
                                     !.promise[id] = "pending",
                                     !.stepper[id] = TRUE,
                                     !.ramp[id] = [from |-> from,
                                                   to |-> args.to,
                                                   msec |-> args.msec,
                                                   norm |-> args.norm,
                                                   elapsed |-> 0,
                                                   onFail |-> args.onFail,
                                                   cb |-> args.cb,
                                                   grp |-> args.grp],
                                     !.fading.promise = id,
                                     !.ret = "pending",
                                     !.slot = id]

\* SonicShuffle.prototype.cancelFade
cancelFadeSt(st, priority) ==
    IF Cancellable(st, OrZero(priority))
      THEN [RejectSt(st, st.fading.promise) EXCEPT
              !.ret = "cancelled", !.slot = st.fading.promise]
      ELSE st

\* mutant: the deadline is reached but the future is not resolved
stepperSt_noresolve(st, id) ==
    LET r == st.ramp[id]
    IN IF r.elapsed >= r.msec
         THEN st
         ELSE volumeSt(st, mutevol(st, RampValue(r)))

\* the setInterval callback of fade()
stepperSt(st, id) ==
    LET r == st.ramp[id]
    IN IF r.elapsed >= r.msec
         THEN ResolveSt(st, id)
         ELSE volumeSt(st, mutevol(st, RampValue(r)))

\* SonicShuffle.prototype.isFading
isFading == fading.promise # NoPromise

\* write a threaded state back to the variables
Commit(st0, op) ==
  \E st \in {st0} :
    /\ ~st.overflow
    /\ gain' = st.gain
    /\ muted' = st.muted
    /\ fading' = st.fading
    /\ promise' = st.promise
    /\ stepper' = st.stepper
    /\ ramp' = st.ramp
    /\ lastCall' = [op |-> op, ret |-> st.ret, slot |-> st.slot]
    /\ howls' = st.howls
    /\ UNCHANGED shuffleVars
    /\ UNCHANGED gridVars
    /\ UNCHANGED sessionVars
    /\ UNCHANGED utilVars

\* every request a caller can make
FadeArgs == [from : FromValues, to : ToValues, msec : Durations,
             priority : Priorities, norm : NormValues, onFail : BOOLEAN,
             cb : {"none"}, grp : {0}]

\* requests whose caller attaches no rejection callback that fades again
PlainArgs == {a \in FadeArgs : ~a.onFail}

\* requests of the re-entrant scenario
ChainArgs == {a \in FadeArgs : a.from = Undefined /\ a.norm = NormDen
                               /\ a.to # GainOne + 1}

Fade(Args) ==
    \E args \in Args : Commit(fadeSt(CurState, args), "fade")

CancelFade ==
    /\ \E p \in Priorities \cup {Undefined} :
           Commit(cancelFadeSt(CurState, p), "cancelFade")
    /\ UNCHANGED calls

\* the stepper of slot id fires
StepperFire(id) ==
    /\ stepper[id]
    /\ Commit(stepperSt(CurState, id), "tick")
    /\ UNCHANGED calls

\* window.performance.now() advances by one stepper period
TimePasses ==
    /\ \E id \in Slots : stepper[id] /\ ramp[id].elapsed < ramp[id].msec
    /\ ramp' = [id \in Slots |->
                  IF stepper[id]
                    THEN [ramp[id] EXCEPT
                            !.elapsed = Min(ramp[id].elapsed + 1, ramp[id].msec)]
                    ELSE ramp[id]]
    /\ promise' = CurState.promise
    /\ lastCall' = [NoCall EXCEPT !.op = "time"]
    /\ UNCHANGED <<gain, muted, fading, stepper, calls, howls>>
    /\ UNCHANGED shuffleVars
    /\ UNCHANGED gridVars
    /\ UNCHANGED sessionVars
    /\ UNCHANGED utilVars

Mute == Commit(muteSt(CurState), "mute") /\ UNCHANGED calls

Unmute == Commit(unmuteSt(CurState), "unmute") /\ UNCHANGED calls

\* the volumes a caller sets: below the range, half, above the range
VolValues == {0 - 1 - GainOne, GainOne \div 2, GainOne + 1}

\* ---------------------------------------------------------- the Music session
\* _xfadepriority.normal, .medium and .high
XfNormal == 0
XfMedium == 1
XfHigh == 2
\* _xfademsec.very_fast and _xfademsec.fast, in stepper periods
XfVeryFast == 1
XfFast == MaxMsec

\* the pieces of _library, in the order of Object.keys(_library)
LibOrder == <<"a", "b", "c">>
Library == {LibOrder[i] : i \in 1..Len(LibOrder)}
\* _nowplaying = { piece: null, audio: null }
NoPiece == "none"

\* a piece of the library before Music.load builds it
Thunk == [loaded |-> FALSE, gain |-> GainOne, muted |-> FALSE,
          pstate |-> "stopped", fading |-> NoFading,
          promise |-> [i \in Slots |-> "free"],
          stepper |-> [i \in Slots |-> FALSE],
          ramp |-> [i \in Slots |-> NoRamp]]

NoFuture == [piece |-> NoPiece, vol |-> 0, status |-> "none"]
NoJoin == [waiting |-> {}, dead |-> FALSE]

\* a track of the library as the fade controller sees it; of its section
\* automaton the session reads and writes track.state only
TrackSt(t) ==
    [gain |-> t.gain, muted |-> t.muted, fading |-> t.fading,
     promise |-> [i \in Slots |->
                    IF t.promise[i] = "pending" THEN "pending" ELSE "free"],
     stepper |-> t.stepper, ramp |-> t.ramp, howls |-> <<>>,
     events |-> <<>>,
     ret |-> "none", slot |-> NoPromise, seen |-> Undefined,
     held |-> {i \in Slots : t.promise[i] = "pending"},
     overflow |-> FALSE,
     pstate |-> t.pstate, isnow |-> FALSE, gmute |-> FALSE,
     loaded |-> t.loaded]

\* the module-level state of Music.js, threaded through a handler
CurSession ==
    [nowplaying |-> nowplaying, volume |-> mvolume, state |-> mstate,
     mute |-> mmute, lib |-> [p \in Library |-> TrackSt(library[p])],
     stopping |-> stopping_promise, futures |-> futures, joins |-> joins,
     timers |-> timers, ret |-> "none", overflow |-> FALSE]

\* track p as its callbacks see it now
withCtx(S, p) ==
    [S.lib[p] EXCEPT !.isnow = (S.nowplaying = p), !.gmute = S.mute,
                     !.ret = "none", !.slot = NoPromise]

\* $.when: the joined future is rejected as soon as one of its futures is
killGroup(S, g) == IF g = 0 THEN S ELSE [S EXCEPT !.joins[g].dead = TRUE]

\* the joined future of group g is resolved
joinResolved(S, g) == ~S.joins[g].dead /\ S.joins[g].waiting = {}

\* track.fade(args).always(args.cb), its future joined by $.when into
\* group args.grp
trackFade(S, p, args) ==
    Bind(withCtx(S, p), LAMBDA pre :
    Bind(fadeSt(pre, args), LAMBDA post :
        LET old == pre.fading.promise
            S1  == [S EXCEPT !.lib[p] = post, !.overflow = @ \/ post.overflow]
            S2  == IF old # NoPromise /\ post.promise[old] = "rejected"
                     THEN killGroup(S1, pre.ramp[old].grp)
                     ELSE S1
        IN IF args.grp = 0 THEN S2
           ELSE IF post.ret = "rejected" THEN killGroup(S2, args.grp)
           ELSE IF post.ret = "pending"
             THEN [S2 EXCEPT !.joins[args.grp].waiting = @ \cup {p}]
           ELSE S2))

\* the fades Music.stop, Music.stopNonPlayingTracks, Music.pause and
\* Music.mute ask for
XFade(from, to, msec, priority, cb, grp) ==
    [from |-> from, to |-> to, msec |-> msec, priority |-> priority,
     norm |-> NormDen, onFail |-> FALSE, cb |-> cb, grp |-> grp]

\* Music.stopNonPlayingTracks over the first n pieces; its futures join
\* group g
RECURSIVE stopNonPlayingTracks(_, _, _)
stopNonPlayingTracks(S, g, n) ==
    IF n = 0 THEN S
    ELSE Bind(stopNonPlayingTracks(S, g, n - 1), LAMBDA S1 :
             LET p == LibOrder[n]
                 t == S1.lib[p]
             IN IF ~t.loaded \/ p = S1.nowplaying \/ t.pstate = "stopped"
                  THEN S1
                  ELSE trackFade(S1, p,
                         XFade(IF S1.mute THEN 0 ELSE t.gain, 0, XfFast,
                               XfMedium, "stopOther", g)))

\* Music.stop(); the future it returns is group g
musicStop(S, g) ==
    LET music == S.nowplaying
        vol   == IF S.mute THEN 0 ELSE S.volume
    IN Bind(IF music # NoPiece
              THEN trackFade(S, music,
                     XFade(vol, 0, XfFast, XfMedium, "stop", g))
              ELSE S,
            LAMBDA S1 :
                [stopNonPlayingTracks(S1, g, Len(LibOrder)) EXCEPT
                    !.state = "stopped"])

\* Music.load
load(S, piece) ==
    IF S.lib[piece].loaded THEN S
    ELSE LET t1 == volumeSt([S.lib[piece] EXCEPT !.loaded = TRUE,
                                                 !.gain = S.volume],
                            S.volume)
         IN [S EXCEPT !.lib[piece] = IF S.mute THEN muteSt(t1) ELSE t1]

\* the volume the installed piece is given: `vol` of the Music.play call
startVolume(S, k) == S.futures[k].vol

\* the .done callback Music.play puts on _stopping_promise
install(S, k) ==
    LET piece == S.futures[k].piece
    IN Bind(stopNonPlayingTracks([S EXCEPT !.nowplaying = piece], 0,
                                 Len(LibOrder)), LAMBDA S2 :
       Bind(withCtx(S2, piece), LAMBDA pre :
       Bind(cancelFadeSt(pre, XfNormal), LAMBDA c :
           LET old == pre.fading.promise
               S3  == IF old # NoPromise /\ c.promise[old] = "rejected"
                        THEN killGroup(S2, pre.ramp[old].grp)
                        ELSE S2
               v   == volumeSt(c, startVolume(S, k))
           IN [S3 EXCEPT !.lib[piece] = [v EXCEPT !.pstate = "playing"]])))

\* `_stopping_promise.resolve()` in the .done callback of Music.stop()
resolveStopping(S) ==
    LET k == S.stopping
    IN IF k = 0 \/ S.futures[k].status # "pending" THEN S
       ELSE install([S EXCEPT !.futures[k].status = "resolved"], k)

\* mutant: Music.play goes through a transition also for the piece that plays
alreadyPlaying_never(S, piece) == FALSE

\* the test that opens Music.play
alreadyPlaying(S, piece) == S.nowplaying = piece /\ S.state = "playing"

\* `if (_stopping_promise) { _stopping_promise.reject() }`
supersede(S) ==
    IF S.stopping # 0 /\ S.futures[S.stopping].status = "pending"
      THEN [S EXCEPT !.futures[S.stopping].status = "rejected"]
      ELSE S

\* Music.play(piece); k is the future it makes
musicPlay(S, piece, k) ==
    IF alreadyPlaying(S, piece)
      THEN [S EXCEPT !.ret = "resolved"]
    ELSE Bind(load(S, piece), LAMBDA S1 :
         Bind(supersede(S1), LAMBDA S2 :
         Bind(musicStop([S2 EXCEPT
                           !.stopping = k,
                           !.futures[k] =
                               [piece |-> piece,
                                vol |-> IF S1.mute THEN 0 ELSE S1.volume,
                                status |-> "pending"],
                           !.joins[k] = NoJoin], k), LAMBDA S4 :
         Bind(IF joinResolved(S4, k)
                THEN install([S4 EXCEPT !.futures[k].status = "resolved"], k)
                ELSE S4, LAMBDA S5 :
             [S5 EXCEPT !.state = "playing",
                        !.ret = S5.futures[k].status]))))

\* the forEach loop of Music.mute over the first n pieces
RECURSIVE muteTracks(_, _, _)
muteTracks(S, yes, n) ==
    IF n = 0 THEN S
    ELSE Bind(muteTracks(S, yes, n - 1), LAMBDA S1 :
             LET p == LibOrder[n]
             IN IF ~S1.lib[p].loaded THEN S1
                ELSE Bind(IF yes THEN S1.lib[p] ELSE unmuteSt(S1.lib[p]),
                          LAMBDA t :
                              trackFade([S1 EXCEPT !.lib[p] = t], p,
                                XFade(t.gain, IF yes THEN 0 ELSE S1.volume,
                                      XfVeryFast, XfHigh, "mute", 0))))

\* Music.mute(yes)
musicMute(S, yes) ==
    Bind(muteTracks([S EXCEPT !.mute = yes], yes, Len(LibOrder)), LAMBDA S1 :
        IF yes THEN S1 ELSE [S1 EXCEPT !.timers = @ + 1])

\* the setTimeout callback of Music.mute: _nowplaying.audio.volume(_volume),
\* a TypeError when nothing is installed
muteTimeout(S) ==
    LET S1 == [S EXCEPT !.timers = @ - 1]
    IN IF S.nowplaying = NoPiece THEN S1
       ELSE [S1 EXCEPT !.lib[S.nowplaying] = volumeSt(@, S.volume)]

\* Music.volume(vol)
musicVolume(S, vol) ==
    LET v == clamp(vol, 0, GainOne)
    IN [S EXCEPT !.volume = v,
                 !.lib = [p \in Library |->
                            IF S.lib[p].loaded THEN volumeSt(S.lib[p], v)
                            ELSE S.lib[p]]]

\* Music.pause()
musicPause(S) ==
    LET music == S.nowplaying
    IN [(IF music = NoPiece THEN S
         ELSE trackFade(S, music,
                XFade(IF S.mute THEN 0 ELSE S.lib[music].gain, 0,
                      XfFast, XfMedium, "pause", 0)))
        EXCEPT !.state = "paused"]

\* a stepper period passes for track p: window.performance.now() has
\* advanced and the stepper of slot id fires
trackTick(S, p, id) ==
    Bind(withCtx(S, p), LAMBDA t :
    Bind([t EXCEPT !.ramp[id].elapsed = Min(@ + 1, t.ramp[id].msec)],
         LAMBDA pre :
    Bind(stepperSt(pre, id), LAMBDA post :
        LET g == pre.ramp[id].grp
        IN IF post.promise[id] = "resolved" /\ g # 0
             THEN Bind([S EXCEPT !.lib[p] = post,
                                 !.joins[g].waiting = @ \ {p}], LAMBDA S2 :
                      IF joinResolved(S2, g) THEN resolveStopping(S2) ELSE S2)
             ELSE [S EXCEPT !.lib[p] = post])))

\* write a threaded session back to the variables; mlast keeps the call made
\* and the piece the last Music.play named
CommitSession(S0, op, piece) ==
  \E S \in {S0} :
    /\ ~S.overflow
    /\ nowplaying' = S.nowplaying
    /\ mvolume' = S.volume
    /\ mstate' = S.state
    /\ mmute' = S.mute
    /\ library' = [p \in Library |->
                     [loaded |-> S.lib[p].loaded, gain |-> S.lib[p].gain,
                      muted |-> S.lib[p].muted, pstate |-> S.lib[p].pstate,
                      fading |-> S.lib[p].fading, promise |-> S.lib[p].promise,
                      stepper |-> S.lib[p].stepper, ramp |-> S.lib[p].ramp]]
    /\ stopping_promise' = S.stopping
    /\ futures' = S.futures
    /\ joins' = S.joins
    /\ timers' = S.timers
    /\ ops' = IF op \in {"mute", "unmute", "pause", "volume"}
                THEN ops + 1 ELSE ops
    /\ mlast' = [op |-> op, ret |-> S.ret, piece |-> piece]
    /\ UNCHANGED fadeVars
    /\ UNCHANGED shuffleVars
    /\ UNCHANGED gridVars
    /\ UNCHANGED howls
    /\ UNCHANGED utilVars

\* the future the next transition makes
NextFuture == 1 + Cardinality({i \in 1..MaxPlays : futures[i].status # "none"})

MusicPlay ==
    \E piece \in Library :
        /\ alreadyPlaying(CurSession, piece) \/ NextFuture <= MaxPlays
        /\ CommitSession(musicPlay(CurSession, piece, NextFuture), "play", piece)

MusicMute ==
    /\ ops < MaxOps
    /\ CommitSession(musicMute(CurSession, TRUE), "mute", mlast.piece)

MusicUnmute ==
    /\ ops < MaxOps
    /\ timers < MaxTimers
    /\ CommitSession(musicMute(CurSession, FALSE), "unmute", mlast.piece)

MuteTimeout ==
    /\ timers > 0
    /\ CommitSession(muteTimeout(CurSession), "timeout", mlast.piece)

MusicVolume ==
    /\ ops < MaxOps
    /\ \E vol \in VolValues :
           CommitSession(musicVolume(CurSession, vol), "volume", mlast.piece)

MusicPause ==
    /\ ops < MaxOps
    /\ CommitSession(musicPause(CurSession), "pause", mlast.piece)

TrackTick ==
    \E p \in Library, id \in Slots :
        /\ library[p].stepper[id]
        /\ CommitSession(trackTick(CurSession, p, id), "tick", mlast.piece)

\* the session after Music.initialize without prefs.mute
IdleSession ==
    /\ nowplaying = NoPiece
    /\ mvolume = GainOne
    /\ mstate = "stopped"
    /\ mmute = FALSE
    /\ library = [p \in Library |-> Thunk]
    /\ stopping_promise = 0
    /\ futures = [i \in 1..MaxPlays |-> NoFuture]
    /\ joins = [i \in 1..MaxPlays |-> NoJoin]
    /\ timers = 0
    /\ ops = 0
    /\ mlast = [op |-> "none", ret |-> "none", piece |-> NoPiece]

\* ------------------------------------------------------------ the event bus
\* the actions handlers are attached to and the functions a caller attaches
Actions == {"play", "end"}
Fns == {"f", "g"}

\* an element of this.callbacks[action]: fn as on() pushed it, or the
\* wrapperfn that one(action, fn) made around it
Plain(f) == [fn |-> f, wrapper |-> FALSE]
Wrapper(f) == [fn |-> f, wrapper |-> TRUE]

\* this.callbacks, and how often each function has run since the last
\* trigger began
CurBus == [callbacks |-> bus.callbacks, count |-> [f \in Fns |-> 0]]

\* SonicShuffle.prototype.on
onBus(B, action, h) == [B EXCEPT !.callbacks[action] = Append(@, h)]

\* SonicShuffle.prototype.off without fn
offAll(B, action) == [B EXCEPT !.callbacks[action] = <<>>]

\* SonicShuffle.prototype.off with fn: $.grep keeps each elem !== fn
offFn(B, action, h) ==
    [B EXCEPT !.callbacks[action] = SelectSeq(@, LAMBDA elem : elem # h)]

\* mutant: ion adds to the handlers that are there
ionBus_accumulate(B, action, f) == onBus(B, action, Plain(f))

\* SonicShuffle.prototype.ion
ionBus(B, action, f) == onBus(offAll(B, action), action, Plain(f))

\* SonicShuffle.prototype.one
oneBus(B, action, f) == onBus(B, action, Wrapper(f))

\* cbs[i].apply(this, args): fn runs, and a wrapperfn then calls
\* off(action, fn)
runHandler(B, action, h) ==
    LET B1 == [B EXCEPT !.count[h.fn] = @ + 1]
    IN IF h.wrapper THEN offFn(B1, action, Plain(h.fn)) ELSE B1

\* the for loop of trigger over cbs, the array it read when it was called
RECURSIVE runHandlers(_, _, _, _)
runHandlers(B, action, cbs, i) ==
    IF i > Len(cbs) THEN B
    ELSE runHandlers(runHandler(B, action, cbs[i]), action, cbs, i + 1)

\* SonicShuffle.prototype.trigger
triggerBus(B, action) ==
    runHandlers([B EXCEPT !.count = [f \in Fns |-> 0]], action,
                B.callbacks[action], 1)

\* the subscriptions of an action
Of(action) == {action} \X Fns

\* the functions that action holds through one() only
OneShots(action) ==
    {<<action, f>> : f \in {g \in Fns :
        /\ \E i \in 1..Len(bus.callbacks[action]) :
               bus.callbacks[action][i] = Wrapper(g)
        /\ \A i \in 1..Len(bus.callbacks[action]) :
               bus.callbacks[action][i] # Plain(g)}}

\* write the bus back; spent keeps the one() subscriptions that a trigger
\* has fired and the caller has not renewed, last the call made
CommitBus(B, op, action, f, fired) ==
    /\ bus' = [callbacks |-> B.callbacks, spent |-> fired,
               last |-> [op |-> op, action |-> action, fn |-> f,
                         had |-> IF op = "ion"
                                   THEN Len(bus.callbacks[action]) ELSE 0]]
    /\ UNCHANGED draw
    /\ UNCHANGED fadeVars
    /\ UNCHANGED shuffleVars
    /\ UNCHANGED gridVars
    /\ UNCHANGED howls
    /\ UNCHANGED sessionVars

On ==
    \E action \in Actions, f \in Fns :
        /\ Len(bus.callbacks[action]) < MaxHandlers
        /\ CommitBus(onBus(CurBus, action, Plain(f)), "on", action, "none",
                     bus.spent \ {<<action, f>>})

Ion ==
    \E action \in Actions, f \in Fns :
        CommitBus(ionBus(CurBus, action, f), "ion", action, "none",
                  bus.spent \ {<<action, f>>})

One ==
    \E action \in Actions, f \in Fns :
        /\ Len(bus.callbacks[action]) < MaxHandlers
        /\ CommitBus(oneBus(CurBus, action, f), "one", action, f,
                     bus.spent \ {<<action, f>>})

Off ==
    \E action \in Actions :
        CommitBus(offAll(CurBus, action), "off", action, "none", bus.spent)

OffFn ==
    \E action \in Actions, f \in Fns :
        CommitBus(offFn(CurBus, action, Plain(f)), "offFn", action, "none",
                  bus.spent)

Trigger ==
    \E action \in Actions :
        CommitBus(triggerBus(CurBus, action), "trigger", action, "none",
                  bus.spent \cup OneShots(action))

\* this.callbacks = {} of the constructor
IdleBus ==
    bus = [callbacks |-> [a \in Actions |-> <<>>], spent |-> {},
           last |-> [op |-> "none", action |-> "none", fn |-> "none",
                     had |-> 0]]

\* ------------------------------------------- SonicUtils.biased_random_index
\* the weight vectors a caller passes
Vectors == UNION {[1..n -> 0..MaxWeight] : n \in 0..MaxVec}

\* the values of Math.random(): u / RandSteps for u in Randoms
Randoms == 0..(RandSteps - 1)

\* SonicUtils.sum
RECURSIVE sum(_)
sum(list) == IF list = <<>> THEN 0 ELSE list[Len(list)] + sum(SubSeq(list, 1, Len(list) - 1))

\* SonicUtils.random_index with Math.random() = u / RandSteps; Math.round
\* rounds a half up
random_index(array, u) ==
    IF Len(array) = 0 THEN Undefined
    ELSE (2 * u * (Len(array) - 1) + RandSteps) \div (2 * RandSteps)

\* mutant: the walk passes a bin that the draw only touches
reaches_strict(accumulation, u, total) ==
    accumulation * RandSteps > u * total

\* accumulation >= magicnumber, where magicnumber = u / RandSteps * total
reaches(accumulation, u, total) ==
    accumulation * RandSteps >= u * total

\* the for loop of biased_random_index from index i on; Undefined when it
\* ends without a return
RECURSIVE walk(_, _, _, _, _)
walk(weights, total, u, i, accumulation) ==
    IF i >= Len(weights) THEN Undefined
    ELSE LET a == accumulation + weights[i + 1]
         IN IF reaches(a, u, total) THEN i
            ELSE walk(weights, total, u, i + 1, a)

\* SonicUtils.biased_random_index; u and u2 are the first and the second
\* value Math.random() gives
biased_random_index(weights, u, u2) ==
    IF Len(weights) = 0 THEN Undefined
    ELSE LET total == sum(weights)
         IN IF total = 0 THEN random_index(weights, u)
            ELSE LET i == walk(weights, total, u, 0, 0)
                 IN IF i # Undefined THEN i ELSE random_index(weights, u2)

\* no call of biased_random_index is under way
IdleDraw ==
    draw = [weights |-> <<>>, u |-> 0, u2 |-> 0, result |-> Undefined,
            called |-> FALSE]

\* the bus and the utilities of a program that has not used them
IdleUtil == IdleBus /\ IdleDraw

\* the fade controller after construction
FadeInit ==
    /\ gain = GainOne
    /\ muted = FALSE
    /\ fading = NoFading
    /\ promise = [i \in Slots |-> "free"]
    /\ stepper = [i \in Slots |-> FALSE]
    /\ ramp = [i \in Slots |-> NoRamp]
    /\ lastCall = NoCall
    /\ calls = 0

\* ------------------------------------------------------ the section automaton
EndScopes == {"section", "cycle", "fullcycle", "loop"}

\* the number of sections of the first k section sets
RECURSIVE SumSizes(_, _)
SumSizes(sizes, k) ==
    IF k = 0 THEN 0 ELSE SumSizes(sizes, k - 1) + sizes[k - 1]

\* the sizes of the section sets of args.sections: every way to split at
\* most MaxTracks sections into non-empty section sets
SizeVectors ==
    {v \in UNION {[0..(n - 1) -> 1..MaxTracks] : n \in 0..MaxTracks} :
        SumSizes(v, Cardinality(DOMAIN v)) <= MaxTracks}

Configs == [sizes : SizeVectors, end : EndScopes, end_stop : BOOLEAN,
            overlaps : BOOLEAN, intro : BOOLEAN, finale : {Undefined}]

\* this.sections.length
NumSets(cfg) == Cardinality(DOMAIN cfg.sizes)

Intro == <<IntroSet, 0>>
NoTrack == <<Null, Null>>
AllTracks == (IntroSet..(MaxTracks - 1)) \X (0..(MaxTracks - 1))

\* the tracks forEachSection visits: the intro, then every section
Owned(cfg) ==
    (IF cfg.intro THEN {Intro} ELSE {})
      \cup {t \in AllTracks : t[1] \in DOMAIN cfg.sizes /\ t[2] < cfg.sizes[t[1]]}

\* howlFactory(url, this.gain): a Howl at the shuffle's volume, not muted,
\* with no fade of its own
NewHowl == [gain |-> GainOne, muted |-> FALSE, fading |-> FALSE]

\* resetSectionsPlayed
resetSectionsPlayed(sizes) ==
    [i \in DOMAIN sizes |-> [j \in 0..(sizes[i] - 1) |-> TRUE]]

\* b.reduce(or) over row[0..k], for a row that is not empty
RECURSIVE reduceOr(_, _)
reduceOr(row, k) ==
    IF k = 0 THEN row[0] ELSE reduceOr(row, k - 1) \/ row[k]

\* visitgraph.reduce(function (a, b) { return a && b.reduce(or) }, true) over
\* the first k rows. reduce without an initial value throws a TypeError on
\* an empty array; a && ... does not evaluate b.reduce(or) when a is false.
RECURSIVE reduceRows(_, _)
reduceRows(vg, k) ==
    IF k = 0 THEN "true"
    ELSE LET a == reduceRows(vg, k - 1)
             b == vg[k - 1]
         IN IF a # "true" THEN a
            ELSE IF DOMAIN b = {} THEN "throws"
            ELSE IF reduceOr(b, Cardinality(DOMAIN b) - 1) THEN "true"
            ELSE "false"

\* cycleExists: "true", "false", or "throws" for the TypeError
cycleOutcome(vg) == reduceRows(vg, Cardinality(DOMAIN vg))

\* mutant: only the row of set 0 is looked at
cycleExists_firstrow(vg) ==
    \A i \in DOMAIN vg : i = 0 => \E j \in DOMAIN vg[i] : vg[i][j]

\* cycleExists where it returns
cycleExists(vg) == cycleOutcome(vg) = "true"

\* the shuffle, threaded through a handler; events collects what the handler
\* triggers, in order
CurShuffle == [config |-> config, state |-> state, section_set |-> section_set,
               section |-> section, section_states |-> section_states,
               sounding |-> sounding, pausedTracks |-> pausedTracks,
               armed |-> armed, endH |-> endH, ovH |-> ovH,
               events |-> <<>>, picks |-> picks, howls |-> howls,
               finale |-> finale, arms |-> <<>>, threw |-> FALSE,
               ret |-> NoTrack, drew |-> FALSE, bad |-> FALSE]

Ev(name, a, b) == [name |-> name, set |-> a, section |-> b]

\* the event that ends the piece: `mapping` in the constructor
EndEvent(cfg) ==
    CASE cfg.end = "section" -> "section-end"
      [] cfg.end = "cycle" -> "cycle-end"
      [] cfg.end = "fullcycle" -> "fullcycle"
      [] OTHER -> "none"

\* SonicShuffle.prototype.nowPlaying
nowPlaying(sh) ==
    IF sh.section_set = Null \/ sh.section = Null THEN NoTrack
    ELSE IF sh.section_set = IntroSet THEN Intro
    ELSE <<sh.section_set, sh.section>>

\* mutant: under 'fullcycle' the grid is not consulted
isLastSection_nogrid(sh) ==
    IF sh.config.end = "section" THEN TRUE
    ELSE IF sh.config.end \in {"cycle", "fullcycle"}
      THEN sh.section_set = NumSets(sh.config) - 1
    ELSE FALSE

\* SonicShuffle.prototype.isLastSection
isLastSection(sh) ==
    IF sh.config.end = "section" THEN TRUE
    ELSE IF sh.config.end = "cycle"
      THEN sh.section_set = NumSets(sh.config) - 1
    ELSE IF sh.config.end = "fullcycle"
      THEN sh.section_set = NumSets(sh.config) - 1
             /\ ~cycleExists(sh.section_states)
    ELSE FALSE

\* SonicShuffle.prototype.stop; every Howl is stopped
stopSh(sh) ==
    [sh EXCEPT !.state = "stopped",
               !.sounding = {}, !.pausedTracks = {}, !.armed = {},
               !.finale.due = {},
               !.section_set = Null, !.section = Null,
               !.section_states = resetSectionsPlayed(sh.config.sizes),
               !.picks = <<>>,
               !.events = Append(@, Ev("stop", Null, Null))]

\* mutant: the handler of the end event emits end and does not stop
triggerSh_nostop(sh, name, a, b) ==
    LET s1 == [sh EXCEPT !.events = Append(@, Ev(name, a, b))]
    IN IF sh.config.end_stop /\ EndEvent(sh.config) = name
         THEN [s1 EXCEPT !.events = Append(@, Ev("end", Null, Null))]
         ELSE s1

\* SonicShuffle.prototype.trigger, with the handler the constructor
\* subscribes to the end event
triggerSh(sh, name, a, b) ==
    LET s1 == [sh EXCEPT !.events = Append(@, Ev(name, a, b))]
    IN IF sh.config.end_stop /\ EndEvent(sh.config) = name
         THEN stopSh([s1 EXCEPT !.events = Append(@, Ev("end", Null, Null))])
         ELSE s1

\* mutant: a picked section stays eligible
markPicked_keep(grid, i, j) == grid

\* this.section_states[this.section_set][this.section] = false
markPicked(grid, i, j) == [grid EXCEPT ![i][j] = FALSE]

\* mutant: the grid is reset on every wrap to set 0
needsReset_always(sh) == sh.section_set = 0

\* mutant: the grid is never reset
needsReset_never(sh) == FALSE

\* the reset test of moveToSucessorState
needsReset(sh) == sh.section_set = 0 /\ ~cycleExists(sh.section_states)

\* moveToSucessorState; ch is the index SonicUtils.random_choice draws
moveToSucessorState(sh, ch) ==
    Bind([sh EXCEPT !.section_set = (sh.section_set + 1) % NumSets(sh.config)],
         LAMBDA s1 :
    Bind(IF needsReset(s1)
           THEN [triggerSh(s1, "fullcycle", Null, Null) EXCEPT
                   !.section_states = resetSectionsPlayed(sh.config.sizes),
                   !.picks = <<>>]
           ELSE s1, LAMBDA s2 :
        IF s2.state # "playing" THEN [s2 EXCEPT !.ret = NoTrack]
        ELSE LET row      == s2.section_states[s2.section_set]
                 possible == {j \in DOMAIN row : row[j]}
             IN IF possible = {}
                  THEN [s2 EXCEPT !.section = Undefined, !.ret = NoTrack,
                                  !.drew = TRUE, !.bad = (ch # 0)]
                  ELSE [s2 EXCEPT
                          !.section = ch,
                          !.section_states =
                              markPicked(@, s2.section_set, ch),
                          !.picks = Append(@, <<s2.section_set, ch>>),
                          !.ret = <<s2.section_set, ch>>,
                          !.drew = TRUE,
                          !.bad = (ch \notin possible)]))

\* section.volume(vol).play(): the Howl starts and its overlap timer is armed
startTrack(sh, t) ==
    [sh EXCEPT !.sounding = @ \cup {t},
               !.pausedTracks = @ \ {t},
               !.armed = IF sh.config.overlaps THEN @ \cup {t} ELSE @,
               !.finale.due = IF sh.finale.timer[t] # Null
                                THEN @ \cup {t} ELSE @]

\* next(): "For first play or transition from intro"
firstPlay(sh) ==
    IF sh.section_set = Null \/ sh.section_set = IntroSet
      THEN [sh EXCEPT !.section_set = NumSets(sh.config) - 1]
      ELSE sh

\* this.finale = args.finale || null
finaleLead(cfg) ==
    IF cfg.finale = Undefined \/ cfg.finale = 0 THEN Null ELSE cfg.finale

\* section.duration() of each Howl
duration(t) == IF (t[1] + t[2]) % 2 = 0 THEN MaxDuration ELSE 1

\* no Howl has a 'finale' timer or handler
NoFinale == [timer |-> [t \in AllTracks |-> Null], handler |-> {}, due |-> {}]

\* mutant: the test is the one next() made before it advanced
lastAtPick_before(sh, moved) == isLastSection(firstPlay(sh))

\* the isLastSection() of processFinaleEvent: next() calls it after
\* moveToSucessorState
lastAtPick(sh, moved) == isLastSection(moved)

\* processFinaleEvent(section), called by next() on the shuffle sh after
\* moveToSucessorState made it `moved`; section.duration() of null throws
processFinaleEvent(sh, moved) ==
    IF finaleLead(moved.config) = Null \/ ~lastAtPick(sh, moved) THEN moved
    ELSE IF moved.ret = NoTrack THEN [moved EXCEPT !.threw = TRUE]
    ELSE LET t    == moved.ret
             msec == Max(duration(t) - finaleLead(moved.config), 0)
         IN [moved EXCEPT !.finale.timer[t] = msec,
                          !.finale.handler = @ \cup {t},
                          !.arms = Append(@, <<t, msec>>)]

\* mutant: the 'finale' handler stays on the Howl
finaleOff_keep(hs, t) == hs

\* section.off('finale')
finaleOff(hs, t) == hs \ {t}

\* the 'finale' timer of Howl t fires: its handler, if it has one
finaleHandlerSt(sh, t) ==
    IF t \in sh.finale.handler
      THEN triggerSh([sh EXCEPT !.finale.handler = finaleOff(@, t)],
                     "finale", Null, Null)
      ELSE sh

\* next() inside play()
nextSt(sh0, ch) ==
    Bind(sh0, LAMBDA sh :
    Bind(isLastSection(sh), LAMBDA finished :
    Bind(processFinaleEvent(sh, moveToSucessorState(firstPlay(sh), ch)),
         LAMBDA s1 :
        IF s1.threw \/ (finished /\ sh.config.end_stop) \/ s1.ret = NoTrack
          THEN s1
        ELSE LET t == s1.ret
             IN Bind([s1 EXCEPT
                        !.endH[t] = s1.section_set,
                        !.ovH = IF sh.config.overlaps THEN @ \cup {t} ELSE @],
                     LAMBDA s2 :
                IF s2.state # "playing" THEN s2
                ELSE Bind(IF s2.section_set = 0
                            THEN triggerSh(s2, "cycle-begin", Null, Null)
                            ELSE s2, LAMBDA s3 :
                     Bind(triggerSh(s3, "section-begin",
                                    s3.section_set, s3.section), LAMBDA s4 :
                         IF s4.state = "playing"
                           THEN startTrack([s4 EXCEPT !.howls[t].gain =
                                               IF muted THEN 0 ELSE gain], t)
                           ELSE s4))))))

\* mutant: play() without sections counts as started
noSections_started(sh) == [sh EXCEPT !.state = "playing"]

\* play() without sections: console.log(...) and return this
noSections(sh) == sh

\* mutant: the resumed shuffle is playing but its Howl is not resumed
resumeSt_silent(sh) == [sh EXCEPT !.state = "playing"]

\* play() on a paused shuffle: this.nowPlaying().play()
resumeSt(sh) ==
    LET t == nowPlaying(sh)
    IN [(IF t \in sh.pausedTracks
           THEN [sh EXCEPT !.sounding = @ \cup {t},
                           !.pausedTracks = @ \ {t}]
           ELSE startTrack(sh, t))
        EXCEPT !.state = "playing"]

\* SonicShuffle.prototype.play
playSt(sh, ch) ==
    IF sh.state = "playing" THEN sh
    ELSE IF NumSets(sh.config) = 0 THEN noSections(sh)
    ELSE IF sh.state = "paused" THEN resumeSt(sh)
    ELSE LET playintro == sh.state = "stopped" /\ sh.config.intro
             s1 == triggerSh([sh EXCEPT !.state = "playing"],
                             "play", Null, Null)
         IN IF playintro
              THEN LET s2 == [s1 EXCEPT
                                !.section_set = IntroSet,
                                !.section = 0,
                                !.endH[Intro] =
                                    IF sh.config.overlaps THEN @ ELSE IntroSet,
                                !.ovH = IF sh.config.overlaps
                                          THEN @ \cup {Intro} ELSE @]
                   IN triggerSh(startTrack(s2, Intro),
                                "section-begin", IntroSet, 0)
              ELSE nextSt(s1, ch)

\* mutant: pause() does not look at the state
pauseSt_anystate(sh) ==
    IF nowPlaying(sh) = NoTrack THEN sh
    ELSE LET t  == nowPlaying(sh)
             s1 == [sh EXCEPT !.state = "paused"]
             s2 == IF t \in s1.sounding
                     THEN [s1 EXCEPT !.sounding = @ \ {t},
                                     !.pausedTracks = @ \cup {t}]
                     ELSE s1
         IN triggerSh(s2, "pause", Null, Null)

\* SonicShuffle.prototype.pause
pauseSt(sh) ==
    IF nowPlaying(sh) = NoTrack \/ sh.state # "playing" THEN sh
    ELSE LET t  == nowPlaying(sh)
             s1 == [sh EXCEPT !.state = "paused"]
             s2 == IF t \in s1.sounding
                     THEN [s1 EXCEPT !.sounding = @ \ {t},
                                     !.pausedTracks = @ \cup {t}]
                     ELSE s1
         IN triggerSh(s2, "pause", Null, Null)

\* the triggers of a section's 'end' handler, before it calls next()
endTriggers(sh, t) ==
    LET s1 == triggerSh(sh, "section-end", Null, Null)
    IN IF sh.endH[t] = NumSets(sh.config) - 1
         THEN triggerSh(s1, "cycle-end", Null, Null)
         ELSE s1

\* the 'end' handler next() puts on a section, or play() on the intro
endHandlerSt(sh, t, ch) ==
    IF sh.endH[t] = Null THEN sh
    ELSE IF sh.endH[t] = IntroSet THEN nextSt(sh, ch)
    ELSE IF ~sh.config.overlaps THEN nextSt(endTriggers(sh, t), ch)
    ELSE endTriggers(sh, t)

\* the 'overlap' handler next() puts on a section, or play() on the intro
overlapHandlerSt(sh, t, ch) ==
    IF t \in sh.ovH THEN nextSt(sh, ch) ELSE sh

\* write a threaded shuffle back to the variables
CommitShuffle(sh0, ch) ==
  \E sh \in {sh0} :
    /\ ~sh.bad
    /\ sh.drew \/ ch = 0
    /\ state' = sh.state
    /\ section_set' = sh.section_set
    /\ section' = sh.section
    /\ section_states' = sh.section_states
    /\ sounding' = sh.sounding
    /\ pausedTracks' = sh.pausedTracks
    /\ armed' = sh.armed
    /\ endH' = sh.endH
    /\ ovH' = sh.ovH
    /\ picks' = sh.picks
    /\ howls' = sh.howls
    /\ finale' = sh.finale
    /\ UNCHANGED config
    /\ UNCHANGED fadeVars
    /\ UNCHANGED gridVars
    /\ UNCHANGED sessionVars
    /\ UNCHANGED utilVars

\* the indices SonicUtils.random_choice can draw: below the length of some
\* section set (0 stands for no draw)
Draws ==
    {0} \cup {j \in 0..(MaxTracks - 1) :
                \E i \in DOMAIN config.sizes : j < config.sizes[i]}

Play == \E ch \in Draws : CommitShuffle(playSt(CurShuffle, ch), ch)

Pause == CommitShuffle(pauseSt(CurShuffle), 0)

Stop == CommitShuffle(stopSh(CurShuffle), 0)

\* the shuffle when Howl t has played to its end, before its handler runs
atEnd(t) ==
    [CurShuffle EXCEPT !.sounding = @ \ {t}, !.armed = @ \ {t},
                       !.finale.due = @ \ {t}]

\* the shuffle when the overlap timer of Howl t has fired
atOverlap(t) == [CurShuffle EXCEPT !.armed = @ \ {t}]

\* a playing Howl reaches its end and fires 'end'
TrackEnd ==
    \E t \in sounding, ch \in Draws :
        CommitShuffle(endHandlerSt(atEnd(t), t, ch), ch)

\* the overlap timer of a playing Howl fires 'overlap'
TrackOverlap ==
    \E t \in sounding \cap armed, ch \in Draws :
        /\ Cardinality(sounding) < MaxSounding
        /\ CommitShuffle(overlapHandlerSt(atOverlap(t), t, ch), ch)

\* the shuffle when the 'finale' timer of Howl t has fired
atFinale(t) == [CurShuffle EXCEPT !.finale.due = @ \ {t}]

\* the 'finale' timer of a playing Howl fires 'finale'
TrackFinale ==
    \E t \in sounding \cap finale.due :
        CommitShuffle(finaleHandlerSt(atFinale(t), t), 0)

\* one shuffle that no operation touches
IdleShuffle(cfg) ==
    /\ config = cfg
    /\ state = "stopped"
    /\ section_set = Null
    /\ section = Null
    /\ section_states = resetSectionsPlayed(cfg.sizes)
    /\ sounding = {}
    /\ pausedTracks = {}
    /\ armed = {}
    /\ endH = [t \in AllTracks |-> Null]
    /\ ovH = {}
    /\ picks = <<>>
    /\ howls = [t \in Owned(cfg) |-> NewHowl]
    /\ finale = NoFinale

\* no call of cycleExists under study
IdleGrid ==
    /\ visitgraph = <<>>
    /\ cycle = "none"

Init ==
    /\ FadeInit
    /\ IdleGrid
    /\ IdleSession
    /\ IdleUtil
    /\ IdleShuffle([sizes |-> <<>>, end |-> "fullcycle", end_stop |-> TRUE,
                    overlaps |-> FALSE, intro |-> FALSE,
                    finale |-> Undefined])

\* a shuffle after construction, for every configuration
InitShuffle ==
    /\ FadeInit
    /\ IdleGrid
    /\ IdleSession
    /\ IdleUtil
    /\ \E cfg \in Configs : IdleShuffle(cfg)

NextShuffle ==
    \/ Play
    \/ Pause
    \/ Stop
    \/ TrackEnd
    \/ TrackOverlap

SpecShuffle == InitShuffle /\ [][NextShuffle]_vars

\* args.finale: absent, 0, or a lead time
FinaleArgs == {Undefined, 0, MaxFinale}

\* the shuffles with a finale argument, of one to MaxOwned sections
FinaleConfigs ==
    {[cfg EXCEPT !.finale = f] :
        cfg \in {c \in Configs :
                    SumSizes(c.sizes, NumSets(c)) \in 1..MaxOwned},
        f \in FinaleArgs}

InitFinale ==
    /\ FadeInit
    /\ IdleGrid
    /\ IdleSession
    /\ IdleUtil
    /\ \E cfg \in FinaleConfigs : IdleShuffle(cfg)

NextFinale ==
    \/ Play
    \/ Pause
    \/ Stop
    \/ TrackEnd
    \/ TrackOverlap
    \/ TrackFinale

SpecFinale == InitFinale /\ [][NextFinale]_vars

\* the rows a visitation grid can have: resetSectionsPlayed gives a section
\* set of n sections a row of n entries, and n = 0 for a set given as []
Rows == UNION {[0..(n - 1) -> BOOLEAN] : n \in 0..MaxRowLen}

Grids == UNION {[0..(n - 1) -> Rows] : n \in 0..MaxRows}

\* cycleExists is about to be called on any grid
InitGrid ==
    /\ FadeInit
    /\ IdleSession
    /\ IdleUtil
    /\ IdleShuffle([sizes |-> <<>>, end |-> "fullcycle", end_stop |-> TRUE,
                    overlaps |-> FALSE, intro |-> FALSE,
                    finale |-> Undefined])
    /\ visitgraph \in Grids
    /\ cycle = "none"

\* the call of cycleExists
CycleExists ==
    /\ cycle = "none"
    /\ cycle' = cycleOutcome(visitgraph)
    /\ UNCHANGED visitgraph
    /\ UNCHANGED howls
    /\ UNCHANGED sessionVars
    /\ UNCHANGED utilVars
    /\ UNCHANGED fadeVars
    /\ UNCHANGED shuffleVars

NextGrid == CycleExists

SpecGrid == InitGrid /\ [][NextGrid]_vars

\* shuffles with the default end and at most MaxOwned sections, with and
\* without an intro
VolumeConfigs ==
    {cfg \in Configs :
        /\ cfg.end = "fullcycle" /\ cfg.end_stop /\ ~cfg.overlaps
        /\ SumSizes(cfg.sizes, NumSets(cfg)) <= MaxOwned}

\* a shuffle after construction whose sections are not played
InitVolume ==
    /\ FadeInit
    /\ IdleGrid
    /\ IdleSession
    /\ IdleUtil
    /\ \E cfg \in VolumeConfigs : IdleShuffle(cfg)

\* volume(vol) with a number
Volume ==
    /\ \E vol \in VolValues : Commit(volumeSt(CurState, vol), "volume")
    /\ UNCHANGED calls

\* a fade of a Howl's own begins
HowlFadeBegin ==
    /\ \E t \in DOMAIN howls :
           /\ ~howls[t].fading
           /\ howls' = [howls EXCEPT ![t].fading = TRUE]
    /\ lastCall' = [NoCall EXCEPT !.op = "howl"]
    /\ promise' = CurState.promise
    /\ UNCHANGED <<gain, muted, fading, stepper, ramp, calls>>
    /\ UNCHANGED shuffleVars
    /\ UNCHANGED gridVars
    /\ UNCHANGED sessionVars
    /\ UNCHANGED utilVars

\* a fade of a Howl's own ends at silence or at full volume
HowlFadeEnd ==
    /\ \E t \in DOMAIN howls, to \in {0, GainOne} :
           /\ howls[t].fading
           /\ howls' = [howls EXCEPT ![t].fading = FALSE, ![t].gain = to]
    /\ lastCall' = [NoCall EXCEPT !.op = "howl"]
    /\ promise' = CurState.promise
    /\ UNCHANGED <<gain, muted, fading, stepper, ramp, calls>>
    /\ UNCHANGED shuffleVars
    /\ UNCHANGED gridVars
    /\ UNCHANGED sessionVars
    /\ UNCHANGED utilVars

NextVolume ==
    \/ Volume
    \/ Mute
    \/ Unmute
    \/ HowlFadeBegin
    \/ HowlFadeEnd

SpecVolume == InitVolume /\ [][NextVolume]_vars

\* the session as Music.play("a") leaves a fresh one: nothing was installed,
\* so Music.stop() had nothing to fade and the piece was installed and
\* started within the call; its future is settled
PlayingSession ==
    /\ nowplaying = LibOrder[1]
    /\ mvolume = GainOne
    /\ mstate = "playing"
    /\ mmute = FALSE
    /\ library = [p \in Library |->
                    IF p = LibOrder[1]
                      THEN [Thunk EXCEPT !.loaded = TRUE, !.pstate = "playing"]
                      ELSE Thunk]
    /\ stopping_promise = 0
    /\ futures = [i \in 1..MaxPlays |-> NoFuture]
    /\ joins = [i \in 1..MaxPlays |-> NoJoin]
    /\ timers = 0
    /\ ops = 0
    /\ mlast = [op |-> "none", ret |-> "none", piece |-> NoPiece]

\* a fresh session, or one that plays its first piece
InitSession ==
    /\ FadeInit
    /\ IdleGrid
    /\ IdleShuffle([sizes |-> <<>>, end |-> "fullcycle", end_stop |-> TRUE,
                    overlaps |-> FALSE, intro |-> FALSE,
                    finale |-> Undefined])
    /\ IdleUtil
    /\ IdleSession \/ PlayingSession

NextSession ==
    \/ MusicPlay
    \/ MusicMute
    \/ MusicUnmute
    \/ MuteTimeout
    \/ MusicVolume
    \/ MusicPause
    \/ TrackTick

SpecSession == InitSession /\ [][NextSession]_vars

\* callers that never fade again from a rejection callback
Next ==
    \/ Fade(PlainArgs) /\ UNCHANGED calls
    \/ CancelFade
    \/ \E id \in Slots : StepperFire(id)
    \/ TimePasses
    \/ Mute
    \/ Unmute

Spec == Init /\ [][Next]_vars

\* requests of the liveness scenario
LiveArgs == {a \in PlainArgs : a.from = Undefined /\ a.norm = NormDen}

NextLive ==
    \/ Fade(LiveArgs) /\ UNCHANGED calls
    \/ CancelFade
    \/ \E id \in Slots : StepperFire(id)
    \/ TimePasses

\* the stepper is a setInterval timer: it keeps firing while it is not
\* cleared, and the clock keeps advancing
FairSpec ==
    /\ Init
    /\ [][NextLive]_vars
    /\ WF_vars(TimePasses)
    /\ \A id \in Slots : WF_vars(StepperFire(id))

\* the same callers, with no assumption on how the timers are scheduled
SpecLock == Init /\ [][NextLive]_vars

\* a caller whose rejection callbacks may call fade() again
NextReentrant ==
    \/ calls < MaxCalls /\ Fade(ChainArgs) /\ calls' = calls + 1
    \/ CancelFade
    \/ \E id \in Slots : StepperFire(id)
    \/ TimePasses

SpecReentrant == Init /\ [][NextReentrant]_vars

\* a shuffle after construction whose callers attach and detach handlers
InitBus ==
    /\ FadeInit
    /\ IdleGrid
    /\ IdleSession
    /\ IdleShuffle([sizes |-> <<>>, end |-> "fullcycle", end_stop |-> TRUE,
                    overlaps |-> FALSE, intro |-> FALSE,
                    finale |-> Undefined])
    /\ IdleBus
    /\ IdleDraw

NextBus ==
    \/ On
    \/ Ion
    \/ One
    \/ Off
    \/ OffFn
    \/ Trigger

SpecBus == InitBus /\ [][NextBus]_vars

\* biased_random_index is about to be called on any weight vector, with any
\* values of Math.random()
InitDraw ==
    /\ FadeInit
    /\ IdleGrid
    /\ IdleSession
    /\ IdleShuffle([sizes |-> <<>>, end |-> "fullcycle", end_stop |-> TRUE,
                    overlaps |-> FALSE, intro |-> FALSE,
                    finale |-> Undefined])
    /\ IdleBus
    /\ draw \in [weights : Vectors, u : Randoms, u2 : Randoms,
                 result : {Undefined}, called : {FALSE}]

\* the call of biased_random_index
BiasedRandomIndex ==
    /\ ~draw.called
    /\ draw' = [draw EXCEPT
                  !.result = biased_random_index(draw.weights, draw.u, draw.u2),
                  !.called = TRUE]
    /\ UNCHANGED bus
    /\ UNCHANGED fadeVars
    /\ UNCHANGED shuffleVars
    /\ UNCHANGED gridVars
    /\ UNCHANGED howls
    /\ UNCHANGED sessionVars

NextDraw == BiasedRandomIndex

SpecDraw == InitDraw /\ [][NextDraw]_vars

\* requests that leave out `to`, `msec` or both
MissingArgs ==
    {a \in [from : FromValues, to : ToValues \cup {Undefined},
            msec : Durations \cup {Undefined}, priority : Priorities,
            norm : {NormDen}, onFail : {FALSE}, cb : {"none"}, grp : {0}] :
        a.to = Undefined \/ a.msec = Undefined}

\* fade() without `to` or without `msec`
FadeMissing == Fade(MissingArgs) /\ UNCHANGED calls

\* callers that also make incomplete requests
NextMissing ==
    \/ Fade(PlainArgs) /\ UNCHANGED calls
    \/ FadeMissing
    \/ CancelFade
    \/ \E id \in Slots : StepperFire(id)
    \/ TimePasses

SpecMissing == Init /\ [][NextMissing]_vars

\* ------------------------------------------------------------------ claims
\* In the formulas below a request is judged in the state it is made in:
\* fadeSt(CurState, a) is the state fade(a) leaves, cancelFadeSt(CurState, p)
\* the state cancelFade(p) leaves, stepperSt(CurState, i) the state one
\* firing of stepper i leaves.

\* steppers that run with an unsettled future
Ramps(st) == {i \in Slots : st.stepper[i] /\ st.promise[i] = "pending"}

\* what fade(a) writes last on the fast path and on resolution
Target(st, a) == clamp(IF st.muted THEN 0 ELSE MulDiv(a.to, a.norm, NormDen),
                       0, GainOne)

\* C1: while a fade of priority p is in flight, fade() with priority q < p
\* returns a rejected future and changes nothing: the in-flight future stays
\* pending, its stepper runs, the priority stays p, the gain is not written.
C1_LowerPriorityRejected ==
    \A a \in FadeArgs :
        (isFading /\ a.priority < fading.priority) =>
            LET st == fadeSt(CurState, a)
            IN /\ st.ret = "rejected"
               /\ st.gain = gain
               /\ st.muted = muted
               /\ st.fading = fading
               /\ st.promise = CurState.promise
               /\ st.promise[fading.promise] = "pending"
               /\ st.stepper = stepper
               /\ st.stepper[fading.promise]
               /\ st.ramp = ramp

\* a lower-priority request has just been turned away
C1_Witness ==
    /\ lastCall.op = "fade"
    /\ lastCall.ret = "rejected"
    /\ isFading
    /\ fading.priority > 0
    /\ promise[fading.promise] = "pending"
    /\ stepper[fading.promise]

C3_CancelFade ==
    \A p \in Priorities \cup {Undefined} :
        LET st == cancelFadeSt(CurState, p)
            q  == IF p = Undefined THEN 0 ELSE p
        IN IF isFading /\ fading.priority <= q
             THEN /\ st.promise[fading.promise] = "rejected"
                  /\ ~st.stepper[fading.promise]
             ELSE st = CurState

\* cancelFade has just rejected a fade
C3_Witness ==
    /\ lastCall.op = "cancelFade"
    /\ lastCall.ret = "cancelled"
    /\ promise[lastCall.slot] = "rejected"
    /\ ~isFading

\* C4 as stated: at most one ramp exists at any time, and isFading() is true
\* exactly when one exists, also when a rejection callback calls fade().
C4_AtMostOneRamp ==
    /\ Cardinality(Ramps(CurState)) <= 1
    /\ isFading <=> Ramps(CurState) # {}

\* C5: a request on the fast path (to = gain or msec = 0, not turned away)
\* starts no stepper, returns a resolved future, leaves isFading() false and
\* sets the gain to clamp(muted ? 0 : to * normalizer()); fade({to: gain,
\* msec: 0}) on an unmuted entity leaves the gain unchanged.  The gain that
\* `to` is compared with is the one read after the in-flight fade, if any,
\* has been rejected.
C5_FastPath ==
    \A a \in FadeArgs :
        LET st == fadeSt(CurState, a)
            s1 == IF isFading THEN RejectSt(CurState, fading.promise)
                              ELSE CurState
        IN ((a.to = s1.gain \/ a.msec = 0)
              /\ ~(isFading /\ a.priority < fading.priority)) =>
             /\ st.ret = "resolved"
             /\ st.slot = NoPromise
             /\ st.stepper = s1.stepper
             /\ st.promise = s1.promise
             /\ (Ramps(CurState) \subseteq {fading.promise}
                   /\ ~(isFading /\ ramp[fading.promise].onFail))
                   => Ramps(st) = {}
             /\ st.fading = NoFading
             /\ st.gain = Target(CurState, a)
             /\ (a.to = s1.gain /\ a.msec = 0 /\ a.norm = NormDen /\ ~muted)
                   => st.gain = s1.gain

\* a fast-path request has just resolved
C5_Witness ==
    /\ lastCall.op = "fade"
    /\ lastCall.ret = "resolved"
    /\ ~isFading
    /\ \A i \in Slots : ~stepper[i]

\* C6: when a ramp resolves on an unmuted entity the gain is the target,
\* clamp(to * normalizer()), and the caller's completion callback already
\* sees that gain.
C6_ResolveWritesTarget ==
    \A i \in Slots :
        (stepper[i] /\ promise[i] = "pending"
           /\ ramp[i].elapsed >= ramp[i].msec /\ ~muted) =>
            LET st == stepperSt(CurState, i)
            IN /\ st.promise[i] = "resolved"
               /\ st.gain = Target(CurState, ramp[i])
               /\ st.seen = Target(CurState, ramp[i])

\* a stepper has just resolved its ramp on an unmuted entity
C6_Witness ==
    /\ lastCall.op = "tick"
    /\ lastCall.ret = "resolved"
    /\ promise[lastCall.slot] = "resolved"
    /\ ~muted

\* C7: every future of the ramp path eventually settles.
C7_FadeSettles ==
    \A i \in Slots : (promise[i] = "pending") ~> (promise[i] # "pending")

\* a ramp has run to its deadline and resolved
C7_Witness ==
    /\ lastCall.op = "tick"
    /\ lastCall.ret = "resolved"
    /\ promise[lastCall.slot] = "resolved"
    /\ ~stepper[lastCall.slot]

\* C8: a rejection writes nothing to the gain (cancelFade leaves it as the
\* last tick set it, and a preempting fade with default `from` and
\* normalizer starts from it), and a stepper runs only while its future is
\* pending, so a settled fade never writes the gain again.
C8_NoRollback ==
    /\ \A i \in Slots : stepper[i] => promise[i] = "pending"
    /\ \A p \in Priorities \cup {Undefined} :
           LET st == cancelFadeSt(CurState, p)
           IN st.ret = "cancelled" =>
                /\ \A i \in Slots : st.stepper[i] => st.promise[i] = "pending"
                /\ ~ramp[fading.promise].onFail => st.gain = gain
    /\ \A a \in PlainArgs :
           LET st == fadeSt(CurState, a)
           IN (isFading /\ ~ramp[fading.promise].onFail
                 /\ st.ret = "pending" /\ st.slot # fading.promise
                 /\ a.from = Undefined /\ a.norm = NormDen) =>
                /\ st.gain = gain
                /\ \A i \in Slots : st.stepper[i] => st.promise[i] = "pending"

\* a fade was cancelled part-way: the gain is neither where it began nor
\* at a target a full-scale normalizer gives
C8_Witness ==
    /\ lastCall.op = "cancelFade"
    /\ lastCall.ret = "cancelled"
    /\ promise[lastCall.slot] = "rejected"
    /\ ~stepper[lastCall.slot]
    /\ gain \notin {0, GainOne \div 2, GainOne}

\* C9 as stated: a fade that resolves while the entity is muted leaves the
\* stored gain at the target, so that unmute() restores it.
C9_MutedFadeTracksGain ==
    /\ \A i \in Slots :
           (muted /\ stepper[i] /\ promise[i] = "pending"
              /\ ramp[i].elapsed >= ramp[i].msec) =>
               unmuteSt(stepperSt(CurState, i)).gain
                   = clamp(MulDiv(ramp[i].to, ramp[i].norm, NormDen), 0, GainOne)
    /\ \A a \in PlainArgs :
           LET st == fadeSt(CurState, a)
           IN (muted /\ st.ret = "resolved") =>
                unmuteSt(st).gain = clamp(MulDiv(a.to, a.norm, NormDen), 0, GainOne)


\* the pairs of a sequence of picks
PickSet(ps) == {ps[k] : k \in 1..Len(ps)}

\* C10: between two resets of the grid no (set, section) pair is picked
\* twice, the picks walk the sets in cyclic order, so N consecutive picks
\* from set 0 on take exactly one section of each set, and the consumed
\* entries of the grid are exactly the pairs picked.
C10_SamplingWithoutReplacement ==
    /\ \A a, b \in 1..Len(picks) : a # b => picks[a] # picks[b]
    /\ \A a \in 1..(Len(picks) - 1) :
           picks[a + 1][1] = (picks[a][1] + 1) % NumSets(config)
    /\ \A i \in DOMAIN section_states : \A j \in DOMAIN section_states[i] :
           ~section_states[i][j] <=> <<i, j>> \in PickSet(picks)

\* the third cycle of a shuffle with one set of three sections is under
\* way and the grid has not been reset since the first one began
C10_Witness ==
    /\ NumSets(config) = 1
    /\ Len(picks) = 3
    /\ picks[1][1] = 0
    /\ state = "playing"

\* the section of the latest pick from set i among ps, Null if there is none
LastOf(ps, i) ==
    LET ks == {k \in 1..Len(ps) : ps[k][1] = i}
    IN IF ks = {} THEN Null
       ELSE ps[CHOOSE k \in ks : \A m \in ks : m <= k][2]

\* C11 as stated: a section picked from a set of more than one section
\* differs from the section picked from that set in the cycle before, also
\* when the grid was reset between the two picks.
C11_NoAdjacentRepeat ==
    [][\A i \in DOMAIN config.sizes :
          (/\ config.sizes[i] > 1
           /\ picks' # picks
           /\ picks' # <<>>
           /\ picks'[Len(picks')][1] = i
           /\ LastOf(picks, i) # Null)
          => picks'[Len(picks')][2] # LastOf(picks, i)]_vars

\* ---- what the operations of SpecShuffle give in the current state

\* the results of play(), pause(), stop(), a Howl's 'end' and a Howl's
\* 'overlap' in the current state
PlayResults == {r \in {playSt(CurShuffle, ch) : ch \in Draws} : ~r.bad}
EndResults(t) ==
    {r \in {endHandlerSt(atEnd(t), t, ch) : ch \in Draws} : ~r.bad}
OverlapResults(t) ==
    {r \in {overlapHandlerSt(atOverlap(t), t, ch) : ch \in Draws} : ~r.bad}
Results ==
    PlayResults \cup {pauseSt(CurShuffle), stopSh(CurShuffle)}
      \cup UNION {EndResults(t) : t \in sounding}
      \cup UNION {OverlapResults(t) : t \in sounding \cap armed}

\* the shuffles next() is entered with in the current state: by play() on a
\* stopped shuffle without intro, by an 'end' handler, by an 'overlap' handler
NextCalls ==
    (IF state = "stopped" /\ ~config.intro /\ NumSets(config) > 0
       THEN {triggerSh([CurShuffle EXCEPT !.state = "playing"],
                       "play", Null, Null)}
       ELSE {})
      \cup {atEnd(t) : t \in {u \in sounding : endH[u] = IntroSet}}
      \cup {endTriggers(atEnd(t), t) :
               t \in {u \in sounding : endH[u] \notin {Null, IntroSet}
                                          /\ ~config.overlaps}}
      \cup {atOverlap(t) : t \in sounding \cap armed \cap ovH}

\* the names of the events a handler triggered after the first k
Names(evs, k) == [i \in 1..(Len(evs) - k) |-> evs[i + k].name]

\* how often a name occurs in a sequence of names
Count(ns, name) == Cardinality({i \in DOMAIN ns : ns[i] = name})

\* some row of the grid has no eligible entry left
Exhausted(grid) ==
    \E i \in DOMAIN grid : \A j \in DOMAIN grid[i] : ~grid[i][j]

\* the grid with the section a call returned marked as consumed
Marked(grid, ret) ==
    IF ret = NoTrack THEN grid
    ELSE [grid EXCEPT ![ret[1]][ret[2]] = FALSE]

\* C12: an advance emits fullcycle exactly when the new set is 0 and some
\* row is exhausted, once and before anything else, and resets the grid
\* then; every other advance only consumes its pick; and an operation that
\* leaves the grid otherwise changed has called stop() or emitted fullcycle.
C12_ResetOnlyAtWrap ==
    /\ \A e \in NextCalls : \A ch \in Draws :
           LET s0     == firstPlay(e)
               r      == moveToSucessorState(s0, ch)
               wraps  == (s0.section_set + 1) % NumSets(config) = 0
               reset  == wraps /\ Exhausted(s0.section_states)
               ns     == Names(r.events, Len(s0.events))
               fresh  == resetSectionsPlayed(config.sizes)
           IN ~r.bad =>
                /\ Count(ns, "fullcycle") = (IF reset THEN 1 ELSE 0)
                /\ reset => ns[1] = "fullcycle"
                /\ r.section_states =
                       Marked(IF reset THEN fresh ELSE s0.section_states, r.ret)
    /\ \A r \in Results :
           r.section_states \notin
               {section_states, Marked(section_states, r.ret)}
             => \E k \in DOMAIN r.events :
                    r.events[k].name \in {"stop", "fullcycle"}

\* an advance is about to wrap to set 0 with an exhausted row, in a run
\* that has picked sections
C12_Witness ==
    /\ state = "playing"
    /\ picks # <<>>
    /\ \E e \in NextCalls :
           /\ (firstPlay(e).section_set + 1) % NumSets(config) = 0
           /\ Exhausted(firstPlay(e).section_states)
           /\ e.state = "playing"

\* C14: isLastSection() follows the end-scope table in every reachable
\* state; under 'cycle', counting the advances from a fresh position, it is
\* true after N of them and not before; with one set of k sections under
\* 'fullcycle' it is true exactly when the k-th section of the epoch is the
\* current one.
C14_IsLastSection ==
    LET n    == NumSets(config)
        last == isLastSection(CurShuffle)
    IN /\ config.end = "section" => last
       /\ config.end = "cycle" => (last <=> section_set = n - 1)
       /\ config.end = "fullcycle" =>
              (last <=> (section_set = n - 1 /\ Exhausted(section_states)))
       /\ config.end = "loop" => ~last
       /\ (config.end = "cycle" /\ n >= 1 /\ picks = <<>>
             /\ section_set \in {Null, IntroSet}) => ~last
       /\ (config.end = "cycle" /\ picks # <<>> /\ picks[1][1] = 0
             /\ Len(picks) <= n) => (last <=> Len(picks) = n)
       /\ (config.end = "fullcycle" /\ n = 1 /\ section_set = 0) =>
              (last <=> Len(picks) = config.sizes[0])

\* the last section of the last set is the current one and a row is
\* exhausted, under 'fullcycle' with more than one set
C14_Witness ==
    /\ config.end = "fullcycle"
    /\ NumSets(config) = 2
    /\ state = "playing"
    /\ section_set = 1
    /\ Exhausted(section_states)
    /\ isLastSection(CurShuffle)

\* C15 as stated: play() on a stopped shuffle with a section set and no
\* intro sets the state to playing, emits play first, advances to set 0,
\* emits section-begin(0, j) for the picked section j and starts its Howl,
\* under every end scope, with auto-stop on or off.
C15_PlayStartsSetZero ==
    (state = "stopped" /\ NumSets(config) >= 1 /\ ~config.intro) =>
        \A r \in PlayResults :
            /\ r.state = "playing"
            /\ r.events # <<>>
            /\ r.events[1].name = "play"
            /\ r.section_set = 0
            /\ r.section \in 0..(config.sizes[0] - 1)
            /\ \E k \in 2..Len(r.events) :
                   r.events[k] = Ev("section-begin", 0, r.section)
            /\ <<0, r.section>> \in r.sounding

\* C16: with auto-stop on, every occurrence of the end scope's terminal
\* event is followed at once by one end event and one stop(); the operation
\* leaves the shuffle stopped with no Howl playing; and a stopped shuffle has
\* no Howl playing and no overlap timer pending, so that only play() starts
\* a section again.
C16_AutoStop ==
    /\ \A r \in Results : \A k \in DOMAIN r.events :
           (config.end_stop /\ r.events[k].name = EndEvent(config)) =>
               /\ k + 2 <= Len(r.events)
               /\ r.events[k + 1].name = "end"
               /\ r.events[k + 2].name = "stop"
               /\ Count(Names(r.events, 0), "end")
                      = Count(Names(r.events, 0), EndEvent(config))
               /\ Count(Names(r.events, 0), "stop")
                      = Count(Names(r.events, 0), EndEvent(config))
               /\ r.state = "stopped"
               /\ r.sounding = {}
               /\ r.armed = {}
    /\ \A r \in Results :
           Count(Names(r.events, 0), "end") > 0 =>
               (config.end_stop
                  /\ Count(Names(r.events, 0), EndEvent(config)) > 0)
    /\ state = "stopped" => (sounding = {} /\ armed = {})

\* the last section of a cycle is playing alone under 'cycle' with
\* auto-stop: its end is the terminal event
C16_Witness ==
    /\ config.end_stop
    /\ config.end = "cycle"
    /\ state = "playing"
    /\ \E t \in sounding : \E r \in EndResults(t) :
           /\ Count(Names(r.events, 0), "cycle-end") = 1
           /\ r.state = "stopped"

\* C17 as stated: a stopped shuffle has position {null, null}, an all-true
\* grid and no Howl playing or paused.
C17_StoppedIsReset ==
    state = "stopped" =>
        /\ section_set = Null
        /\ section = Null
        /\ section_states = resetSectionsPlayed(config.sizes)
        /\ sounding = {}
        /\ pausedTracks = {}

\* C18: play() on a shuffle without section sets changes nothing and emits
\* no event, with or without an intro.
C18_PlayWithoutSections ==
    NumSets(config) = 0 => PlayResults = {CurShuffle}

\* a shuffle with an intro and no section sets
C18_Witness ==
    /\ NumSets(config) = 0
    /\ config.intro
    /\ state = "stopped"
    /\ PlayResults # {}

\* C19: play() changes nothing while playing; on a paused shuffle it makes
\* the Howl of the current position play and sets the state to playing, and
\* leaves position, grid, picks and handlers alone and emits nothing.
C19_PlayWhilePlayingOrPaused ==
    /\ state = "playing" => PlayResults = {CurShuffle}
    /\ state = "paused" =>
           \A r \in PlayResults :
               /\ r.state = "playing"
               /\ r.section_set = section_set
               /\ r.section = section
               /\ r.section_states = section_states
               /\ r.picks = picks
               /\ r.endH = endH
               /\ r.ovH = ovH
               /\ r.events = <<>>
               /\ nowPlaying(CurShuffle) # NoTrack
               /\ r.sounding = sounding \cup {nowPlaying(CurShuffle)}
               /\ r.pausedTracks = pausedTracks \ {nowPlaying(CurShuffle)}

\* a section was paused in the middle of a piece
C19_Witness ==
    /\ state = "paused"
    /\ section_set = 1
    /\ nowPlaying(CurShuffle) \in pausedTracks
    /\ PlayResults # {}

\* the moves of this.state the lifecycle allows
Lifecycle ==
    {<<"stopped", "playing">>, <<"playing", "paused">>,
     <<"playing", "stopped">>, <<"paused", "playing">>,
     <<"paused", "stopped">>}

\* C20: this.state only moves along the lifecycle; pause() on a shuffle
\* that is not playing changes nothing and emits nothing, and when it
\* changes anything it goes from playing to paused and emits pause once.
C20_Lifecycle ==
    /\ [][state' # state => <<state, state'>> \in Lifecycle]_vars
    /\ [](LET r == pauseSt(CurShuffle)
          IN /\ state # "playing" => r = CurShuffle
             /\ r # CurShuffle =>
                    /\ r.state = "paused"
                    /\ Names(r.events, 0) = <<"pause">>
                    /\ r.section_set = section_set
                    /\ r.section = section)

\* a shuffle was paused
C20_Witness ==
    /\ state = "paused"
    /\ nowPlaying(CurShuffle) \in pausedTracks
    /\ pauseSt(CurShuffle) = CurShuffle

\* C13 as stated: cycleExists returns true iff every row has a true entry,
\* and false iff some row is entirely false, for every grid.
C13_CycleExists ==
    cycle # "none" =>
        /\ cycle = "true" <=>
               \A i \in DOMAIN visitgraph :
                   \E j \in DOMAIN visitgraph[i] : visitgraph[i][j]
        /\ cycle = "false" <=>
               \E i \in DOMAIN visitgraph :
                   \A j \in DOMAIN visitgraph[i] : ~visitgraph[i][j]

\* C21: volume(v) on an unmuted shuffle stores clamp(v, 0, 1) as the gain,
\* emits volume once, writes that gain to every owned Howl that is not
\* fading and leaves every owned Howl that is fading as it was.
C21_VolumePropagates ==
    \A v \in VolValues :
        ~muted =>
            LET st == volumeSt(CurState, v)
            IN /\ st.gain = (IF v < 0 THEN 0 ELSE IF v > GainOne THEN GainOne
                                                 ELSE v)
               /\ st.events = <<"volume">>
               /\ ~st.muted
               /\ DOMAIN st.howls = Owned(config)
               /\ \A t \in Owned(config) :
                      IF howls[t].fading
                        THEN st.howls[t] = howls[t]
                        ELSE st.howls[t] = [howls[t] EXCEPT !.gain = st.gain]

\* volume() has just been set to a half on an unmuted shuffle: one Howl in
\* a fade of its own kept its volume, another Howl took the new one
C21_Witness ==
    /\ lastCall.op = "volume"
    /\ ~muted
    /\ gain = GainOne \div 2
    /\ \E t \in DOMAIN howls : howls[t].fading /\ howls[t].gain = GainOne
    /\ \E t \in DOMAIN howls : ~howls[t].fading /\ howls[t].gain = gain

\* transitions whose future is not settled
Pending == {k \in 1..MaxPlays : futures[k].status = "pending"}

\* the tracks of the library that play
Playing == {p \in Library : library[p].pstate = "playing"}

\* C22: Music.play(piece) for the piece that is installed, in session state
\* playing, returns a resolved future and changes nothing: no fade is
\* started, no track is stopped, no pending future is rejected.
C22_PlayInstalledPiece ==
    \A piece \in Library :
        (nowplaying = piece /\ mstate = "playing") =>
            LET S == musicPlay(CurSession, piece, NextFuture)
            IN /\ S.ret = "resolved"
               /\ [S EXCEPT !.ret = "none"] = CurSession

\* Music.play has just returned a resolved future for the installed piece
\* while the future of a transition is pending
C22_Witness ==
    /\ mlast.op = "play"
    /\ mlast.ret = "resolved"
    /\ mstate = "playing"
    /\ nowplaying # NoPiece
    /\ Pending # {}

\* C23 as stated: when Music.play(B) is called while the future of the
\* transition to A is pending, that future is rejected; a piece whose
\* transitions were all superseded is never installed or started; when the
\* last future settles the installed piece is B and it is the only one that
\* plays; at no time are two futures pending.
C23_SupersededTransition ==
    /\ [][(mlast'.op = "play" /\ mlast'.piece \notin {futures[k].piece : k \in Pending})
             => \A k \in Pending : futures'[k].status = "rejected"]_vars
    /\ [](\A A \in Library \ {LibOrder[1]} :
            ((\E k \in 1..MaxPlays : futures[k].piece = A)
               /\ \A k \in 1..MaxPlays :
                      futures[k].piece = A =>
                          futures[k].status \in {"rejected", "pending"})
              => nowplaying # A /\ library[A].pstate = "stopped")
    /\ [][\A k \in Pending :
             futures'[k].status = "resolved" =>
                 /\ nowplaying' = futures[k].piece
                 /\ {p \in Library : library'[p].pstate = "playing"}
                       = {futures[k].piece}]_vars
    /\ [](Cardinality(Pending) <= 1)

\* C24 as stated: once no transition is pending, the installed piece is the
\* one the last Music.play call named.
C24_LastRequestWins ==
    (mlast.piece # NoPiece /\ Pending = {}) => nowplaying = mlast.piece

\* no stepper runs and no setTimeout callback is due: nothing happens before
\* the next call of the session's interface
Quiescent ==
    /\ timers = 0
    /\ \A p \in Library, id \in Slots : ~library[p].stepper[id]

\* C25 as stated: the future of every transition settles, so when every
\* fade has ended and no timer is due, no future is left pending.
C25_FutureSettles == Quiescent => Pending = {}

\* what is heard of a track
EffectiveVolume(t) == IF t.muted THEN 0 ELSE t.gain

\* C26 as stated: when a transition installs and starts its piece, the
\* piece sounds at 0 if _mute is set at that moment and at _volume otherwise.
C26_StartVolume ==
    [][\A k \in 1..MaxPlays :
          (futures[k].status # "resolved" /\ futures'[k].status = "resolved")
            => /\ library'[futures'[k].piece].pstate = "playing"
               /\ EffectiveVolume(library'[futures'[k].piece])
                     = IF mmute' THEN 0 ELSE mvolume']_vars

\* C27 as stated: a function subscribed with one(action, fn) runs in the
\* first trigger(action) after the subscription, and in no later
\* trigger(action) unless the caller has subscribed it again.
C27_OneShot ==
    \A action \in Actions, f \in Fns :
        LET n == triggerBus(CurBus, action).count[f]
        IN /\ (bus.last.op = "one" /\ bus.last.action = action
                 /\ bus.last.fn = f) => n >= 1
           /\ <<action, f>> \in bus.spent => n = 0

\* C28: after ion(action, fn) the handler list of action is exactly [fn]
\* whatever it held, the handlers of the other actions are as before, and
\* one trigger(action) then runs fn once and no other function.
C28_IonReplaces ==
    \A action \in Actions, f \in Fns :
        LET B == ionBus(CurBus, action, f)
            T == triggerBus(B, action)
        IN /\ B.callbacks[action] = <<Plain(f)>>
           /\ \A other \in Actions \ {action} :
                  B.callbacks[other] = bus.callbacks[other]
           /\ T.count = [g \in Fns |-> IF g = f THEN 1 ELSE 0]

\* ion has just replaced a full handler list, while the other action keeps
\* its handlers
C28_Witness ==
    /\ bus.last.op = "ion"
    /\ bus.last.had = MaxHandlers
    /\ Len(bus.callbacks[bus.last.action]) = 1
    /\ \E other \in Actions \ {bus.last.action} :
           Len(bus.callbacks[other]) = MaxHandlers

\* the sum of the first n weights
Cumulative(weights, n) == sum(SubSeq(weights, 1, n))

\* C29: biased_random_index gives undefined for an empty vector and an index
\* of the vector otherwise; when the weights sum to total > 0 and the draw
\* is r = u / RandSteps * total, it gives the smallest index whose
\* cumulative weight is >= r.
C29_BiasedIndex ==
    draw.called =>
        LET w == draw.weights
            total == sum(w)
            i == draw.result
        IN /\ Len(w) = 0 => i = Undefined
           /\ Len(w) > 0 => i \in 0..(Len(w) - 1)
           /\ (Len(w) > 0 /\ total > 0) =>
                 /\ Cumulative(w, i + 1) * RandSteps >= draw.u * total
                 /\ \A j \in 0..(i - 1) :
                        Cumulative(w, j + 1) * RandSteps < draw.u * total

\* the call gave the last index of a vector of MaxVec weights that starts
\* with a weight of 0
C29_Witness ==
    /\ draw.called
    /\ Len(draw.weights) = MaxVec
    /\ draw.weights[1] = 0
    /\ draw.u > 0
    /\ draw.result = MaxVec - 1

\* C30: fade() without `to` or without `msec` throws and leaves the entity
\* as it was: the gain, the in-flight fade, its priority, every future and
\* every stepper.
C30_MissingArgsThrow ==
    \A args \in MissingArgs :
        LET s == fadeSt(CurState, args)
        IN /\ s.ret = "throws"
           /\ s.gain = gain
           /\ s.muted = muted
           /\ s.fading = fading
           /\ s.promise = CurState.promise
           /\ s.stepper = stepper
           /\ s.ramp = ramp
           /\ s.events = <<>>

\* an incomplete fade() has just thrown while a fade is in flight
C30_Witness ==
    /\ lastCall.op = "fade"
    /\ lastCall.ret = "throws"
    /\ isFading
    /\ \E id \in Slots : stepper[id] /\ promise[id] = "pending"

\* ---- the finale timer

\* the results of a 'finale' timer firing on Howl t
FinaleResults(t) == {finaleHandlerSt(atFinale(t), t)}

\* the Howls a handler armed
Armed(r) == {r.arms[k][1] : k \in DOMAIN r.arms}

\* what next() arms when it is entered with the shuffle e and draws ch: the
\* chosen section, if finale counts as set and isLastSection() holds right
\* after the section is chosen
Arming(e, ch, set) ==
    LET m == moveToSucessorState(firstPlay(e), ch)
    IN IF set /\ m.ret # NoTrack /\ isLastSection(m)
         THEN <<<<m.ret, Max(duration(m.ret) - config.finale, 0)>>>>
         ELSE <<>>

\* the part of C31 that is about the timer and its handler: only next() arms,
\* a handler is on a Howl only from an arming, a firing timer emits finale
\* once if the Howl has the handler and takes the handler off, and nothing
\* else emits finale
FiresOnce ==
    /\ \A r \in Results :
           /\ Count(Names(r.events, 0), "finale") = 0
           /\ r.finale.handler \subseteq finale.handler \cup Armed(r)
           /\ \A k \in DOMAIN r.arms :
                  /\ r.finale.timer[r.arms[k][1]] = r.arms[k][2]
                  /\ r.arms[k][1] \in r.finale.handler
    /\ \A t \in sounding \cap finale.due : \A r \in FinaleResults(t) :
           /\ Count(Names(r.events, 0), "finale")
                  = (IF t \in finale.handler THEN 1 ELSE 0)
           /\ r.finale.handler = finale.handler \ {t}
           /\ r.arms = <<>>

SoundingSections == {t \in sounding : t # Intro}

\* the positions of an event name in a handler's events
Positions(evs, name) == {k \in DOMAIN evs : evs[k].name = name}

\* C32: without overlaps the natural end of a section Howl emits section-end
\* once and first, then cycle-end once iff the section is of the last set,
\* and next() chooses and starts the following section only after them;
\* and at most one section Howl is playing.
C32_SectionEndChain ==
    ~config.overlaps =>
        /\ Cardinality(SoundingSections) <= 1
        /\ \A t \in SoundingSections : \A r \in EndResults(t) :
               LET last == t[1] = NumSets(config) - 1
                   head == IF last THEN 2 ELSE 1
               IN /\ Positions(r.events, "section-end") = {1}
                  /\ Positions(r.events, "cycle-end")
                         = (IF last THEN {2} ELSE {})
                  /\ \A k \in Positions(r.events, "section-begin") : k > head
                  /\ r.picks # picks => Len(r.events) > head

\* C33: play() on a stopped shuffle without intro, at the start or after a
\* stop() or an auto-stop, leaves set 0 current with its picked section
\* playing, and emits cycle-begin before that section's section-begin.
C33_RunBeginsAtSetZero ==
    (state = "stopped" /\ ~config.intro /\ NumSets(config) >= 1) =>
        \A r \in PlayResults :
            /\ r.section_set = 0
            /\ nowPlaying(r) \in r.sounding
            /\ \E b \in Positions(r.events, "section-begin") :
                   /\ r.events[b] = Ev("section-begin", 0, r.section)
                   /\ \E c \in Positions(r.events, "cycle-begin") : c < b

\* the size of the smallest section set
MinSize(cfg) ==
    CHOOSE n \in {cfg.sizes[i] : i \in DOMAIN cfg.sizes} :
        \A i \in DOMAIN cfg.sizes : n <= cfg.sizes[i]

\* a section, not the intro, is the current one
SectionIsCurrent == nowPlaying(CurShuffle) \notin {NoTrack, Intro}

\* the advance from the shuffle e with draw ch emits fullcycle, once, and
\* resets the grid before it picks
EmitsAndResets(e, ch) ==
    LET m == moveToSucessorState(firstPlay(e), ch)
    IN /\ Count(Names(m.events, Len(e.events)), "fullcycle") = 1
       /\ m.section_states =
              Marked(resetSectionsPlayed(config.sizes), m.ret)

\* C34: under 'fullcycle', while a section is the current one, isLastSection()
\* is true iff the next advance emits fullcycle and resets the grid, whether
\* it is made now or by the next terminal event; and iff the sections played
\* since the last reset make up as many cycles as the smallest set has
\* sections.
C34_LastBeforeReset ==
    (config.end = "fullcycle" /\ SectionIsCurrent) =>
        LET last == isLastSection(CurShuffle)
        IN /\ \A ch \in Draws :
                  ~moveToSucessorState(CurShuffle, ch).bad =>
                      (last <=> EmitsAndResets(CurShuffle, ch))
           /\ \A e \in NextCalls : \A ch \in Draws :
                  ~moveToSucessorState(firstPlay(e), ch).bad =>
                      (last <=> EmitsAndResets(e, ch))
           /\ last <=> Len(picks) = NumSets(config) * MinSize(config)
           /\ Len(picks) <= NumSets(config) * MinSize(config)

\* a looping shuffle with sets of two and of one section plays the section
\* of its second set: the one cycle played exhausts the smaller set, and the
\* advance its end brings resets the grid
C34_Witness ==
    /\ config.end = "fullcycle"
    /\ ~config.end_stop
    /\ ~config.overlaps
    /\ NumSets(config) = 2
    /\ config.sizes[0] = 2
    /\ config.sizes[1] = 1
    /\ state = "playing"
    /\ nowPlaying(CurShuffle) = <<1, 0>>
    /\ <<1, 0>> \in sounding
    /\ isLastSection(CurShuffle)
    /\ Len(picks) = 2
    /\ \E e \in NextCalls : \E ch \in Draws : EmitsAndResets(e, ch)

\* the eligible entries of the row the advance from e is about to pick from,
\* if that advance does not reset the grid
EligibleNext(e) ==
    LET i == (firstPlay(e).section_set + 1) % NumSets(config)
    IN {j \in DOMAIN e.section_states[i] : e.section_states[i][j]}

\* C35: every advance that reaches its pick step, after any sequence of
\* play, pause, stop and Howl events, picks from a row with an eligible
\* entry: it is in state playing, the picked section is an index of the
\* current set that was eligible, and the Howl it returns is one the shuffle
\* owns; and this.section is never undefined.
C35_PickIsDefined ==
    /\ section # Undefined
    /\ section_set \in DOMAIN config.sizes =>
           section \in {Null} \cup (0..(config.sizes[section_set] - 1))
    /\ \A e \in NextCalls : \A ch \in Draws :
           LET m == moveToSucessorState(firstPlay(e), ch)
           IN (m.drew /\ ~m.bad) =>
                /\ m.state = "playing"
                /\ m.section_set \in DOMAIN config.sizes
                /\ m.section \in 0..(config.sizes[m.section_set] - 1)
                /\ m.ret = <<m.section_set, m.section>>
                /\ m.ret \in Owned(config)
                /\ ~m.section_states[m.section_set][m.section]
                /\ Count(Names(m.events, Len(e.events)), "fullcycle") = 0
                       => m.section \in EligibleNext(e)
    /\ \A e \in NextCalls : \E ch \in Draws :
           ~moveToSucessorState(firstPlay(e), ch).bad

\* an advance is about to pick, without a reset, from a row that the picks
\* of this epoch have left a single eligible entry in
C35_Witness ==
    /\ state = "playing"
    /\ picks # <<>>
    /\ \E e \in NextCalls : \E ch \in Draws :
           LET m == moveToSucessorState(firstPlay(e), ch)
           IN /\ m.drew
              /\ ~m.bad
              /\ Count(Names(m.events, Len(e.events)), "fullcycle") = 0
              /\ Cardinality(EligibleNext(e)) = 1
              /\ config.sizes[m.section_set] > 1

\* no fade is in flight
NoneInFlight == \A i \in Slots : promise[i] # "pending"

\* fade(a) is accepted and runs: on the fast path it returns a resolved
\* future and retains nothing, on the ramp path its future is pending, its
\* stepper runs and it holds the lock with its own priority
Accepted(r, a) ==
    \/ /\ r.ret = "resolved"
       /\ r.fading = NoFading
    \/ /\ r.ret = "pending"
       /\ r.promise[r.slot] = "pending"
       /\ r.stepper[r.slot]
       /\ r.fading = [priority |-> OrZero(a.priority), promise |-> r.slot]

\* the operations that settle the fade in flight: its last tick, cancelFade,
\* and a fade() that preempts it
Settlings ==
    IF fading.promise = NoPromise THEN {}
    ELSE {s \in {stepperSt(CurState, fading.promise)}
                  \cup {cancelFadeSt(CurState, p) : p \in Priorities}
                  \cup {fadeSt(CurState, a) : a \in PlainArgs} :
            s.promise[fading.promise] # "pending"}

\* a threaded state as the next operation finds it
Settled(s) ==
    [s EXCEPT !.ret = "none", !.slot = NoPromise, !.seen = Undefined,
              !.held = {i \in Slots : s.promise[i] = "pending"}]

\* C36: _fading names a future only while that future is pending; whenever
\* no fade is in flight _fading is {} and fade() with any priority is
\* accepted and runs; and right after the operation that settles the fade
\* in flight, by its last tick, by a rejection or through a preempting fast
\* path, _fading names no settled future, and if that operation left no
\* fade in flight a fade() of any priority, lower ones included, is accepted.
C36_NoPriorityRetained ==
    /\ fading.promise # NoPromise => promise[fading.promise] = "pending"
    /\ fading.promise = NoPromise => fading = NoFading
    /\ NoneInFlight =>
           /\ fading = NoFading
           /\ \A a \in PlainArgs : Accepted(fadeSt(CurState, a), a)
    /\ \A s \in Settlings :
           /\ s.fading.promise # NoPromise =>
                  s.promise[s.fading.promise] = "pending"
           /\ (\A i \in Slots : s.promise[i] # "pending") =>
                  /\ s.fading = NoFading
                  /\ \A a \in LiveArgs :
                         Accepted(fadeSt(Settled(s), a), a)

\* a fade of the highest priority is in flight and its last tick is due:
\* the tick resolves it, and a fade() of priority 0 then takes the ramp path
C36_Witness ==
    /\ fading.promise # NoPromise
    /\ fading.priority = MaxPriority
    /\ MaxPriority > 0
    /\ ramp[fading.promise].elapsed >= ramp[fading.promise].msec
    /\ LET s == stepperSt(CurState, fading.promise)
       IN /\ s \in Settlings
          /\ s.ret = "resolved"
          /\ \E a \in LiveArgs :
                 /\ a.priority = 0
                 /\ fadeSt(Settled(s), a).ret = "pending"

TypeOK ==
    /\ gain \in 0..GainOne
    /\ muted \in BOOLEAN
    /\ fading.promise \in Slots \cup {NoPromise}
    /\ \A i \in Slots : promise[i] \in {"free", "pending", "resolved", "rejected"}
    /\ calls \in 0..MaxCalls

====
